---------------------------- MODULE Spec2Model ----------------------------
(***************************************************************************)
(* A model of wolfie3d (src/src/wolfie3d/game.py): the wave director, the  *)
(* entities (Enemy, Bullet, AmmoBox), the player resource and the frame    *)
(* driver's tick.                                                          *)
(*                                                                         *)
(* Numeric conventions.  Python floats are modelled in fixed point:        *)
(*   - a time (dt, wave_countdown, timers) is an integer number of         *)
(*     milliseconds: clock.tick(FPS) returns integer milliseconds and the  *)
(*     code divides by 1000.0, so 5.0 s is 5000;                           *)
(*   - a length or coordinate is an integer number of 1/1000 map units:    *)
(*     3.5 is 3500, a radius of 0.35 is 350;                               *)
(*   - a speed is in 1/1000 map units per second: 1.4 is 1400;             *)
(*   - a dimensionless factor (speed multiplier) is in tenths: 1.0 is 10.  *)
(***************************************************************************)
EXTENDS Integers, Sequences, FiniteSets, TLC

VARIABLES
    wave_manager,   \* main's wave_manager (a record of the WaveManager's fields)
    enemies,        \* main's enemies: list[Enemy]
    bullets,        \* main's bullets: list[Bullet]
    ammo_boxes,     \* main's ammo_boxes: list[AmmoBox]
    ammo_box_spawn_timer,   \* main's ammo_box_spawn_timer (ms)
    firing,         \* main's firing
    recoil_t,       \* main's recoil_t (ms)
    running,        \* main's running
    player_ammo,    \* module global player_ammo
    player_x,       \* module global player_x
    player_y,       \* module global player_y
    dir_x,          \* module global dir_x
    dir_y,          \* module global dir_y
    plane_x,        \* module global plane_x
    plane_y,        \* module global plane_y
    pc,             \* the phase of the tick main is at
    dt,             \* main's dt of the current tick (ms)
    events,         \* what is left of pygame.event.get() in the current tick
    keys,           \* pygame.key.get_pressed() of the current tick
    grid,           \* module global MAP, as the raycaster reads it
    ray,            \* the locals of one column of cast_and_build_wall_batches
    tick,           \* history: number of ticks completed
    wave_base,      \* history: Len(enemies) when the current wave started
    calls,          \* history: number of calls made on the object under test
    true_returns,   \* history: number of take_damage calls that returned True
    hist            \* history: the last operation, its inputs and the state before it

playerVars == <<player_x, player_y, dir_x, dir_y, plane_x, plane_y>>

loopVars == <<bullets, ammo_box_spawn_timer, firing, recoil_t, running, pc, dt,
              events, keys, tick>>

rayVars == <<grid, ray>>

vars == <<wave_manager, enemies, ammo_boxes, player_ammo, playerVars, loopVars,
          rayVars, wave_base, calls, true_returns, hist>>

-----------------------------------------------------------------------------
(* Bounds of the model *)

\* UpdateWave is explored up to this wave number.
MaxWave == 12

\* Up to this wave the enemies of a wave are damaged in every order; in the
\* later (larger) waves they are damaged in list order.
MaxFreeWave == 2

\* Enemy.take_damage is exercised on enemies of health 1..MaxHealth, with
\* amounts 1..MaxDamage, for at most MaxCalls calls on one enemy.
MaxHealth == 4
MaxDamage == 4
MaxCalls == 4

\* The game loop is run for this many ticks.
MaxTicks == 3

\* The frame times (ms) the wave director is stepped with: 1000 and 2500 reach
\* a countdown of exactly 0 (2 x 2500) and below 0 (1000 + 1000 + 1000 + 2500).
DtSet == {1000, 2500}

-----------------------------------------------------------------------------
(* Helpers *)

Min(a, b) == IF a <= b THEN a ELSE b

\* Python's int(): truncation toward zero, of a coordinate in 1/1000 units.
int(v) == IF v >= 0 THEN v \div 1000 ELSE -((-v) \div 1000)

\* Fixed-point division: a / b rounded toward zero (b > 0).
Div(a, b) == IF a >= 0 THEN a \div b ELSE -((-a) \div b)

RECURSIVE IsqrtIter(_, _, _)
\* The largest r in lo..hi with r * r <= n, by bisection.
IsqrtIter(n, lo, hi) ==
    IF lo >= hi
    THEN lo
    ELSE LET mid == (lo + hi + 1) \div 2
         IN  IF mid * mid <= n
             THEN IsqrtIter(n, mid, hi)
             ELSE IsqrtIter(n, lo, mid - 1)

\* floor(sqrt(n)) for 0 <= n < 2^31: math.hypot in 1/1000 units.
Isqrt(n) == IsqrtIter(n, 0, 46340)

\* math.cos and math.sin of an angle r in 1/1000 rad, in 1/1000, for the
\* angles ROT_SPEED * dt the frame times of the model produce (0.6, 2.0 and
\* 5.0 rad, either sign).
cos_milli(r) ==
    CASE r = 0                  -> 1000
      [] r = 600  \/ r = -600   -> 825
      [] r = 2000 \/ r = -2000  -> -416
      [] r = 5000 \/ r = -5000  -> 284

sin_milli(r) ==
    CASE r = 0     -> 0
      [] r = 600   -> 565
      [] r = -600  -> -565
      [] r = 2000  -> 909
      [] r = -2000 -> -909
      [] r = 5000  -> -959
      [] r = -5000 -> 959

\* The square of math.hypot(dx, dy); distances are compared by their squares.
Hypot2(dx, dy) == dx * dx + dy * dy

Abs(a) == IF a >= 0 THEN a ELSE -a

\* dx*dx + dy*dy <= r*r, with the squares taken only when both offsets are
\* within r (a far away bullet would overflow the 32-bit product).
Within(dx, dy, r) ==
    /\ Abs(dx) <= r
    /\ Abs(dy) <= r
    /\ Hypot2(dx, dy) <= r * r

-----------------------------------------------------------------------------
(* The grid map *)

MAP ==
  << <<1,1,1,1,1,1,1,1,1,1,1,1,1,1,1,1,1,1,1,1>>,
     <<1,0,0,0,0,0,0,0,0,0,0,0,0,0,0,0,0,0,0,1>>,
     <<1,0,2,0,0,0,0,0,0,0,0,3,0,0,0,0,0,4,0,1>>,
     <<1,0,2,0,0,0,0,0,0,0,0,3,0,0,0,0,0,4,0,1>>,
     <<1,0,2,0,0,0,0,0,0,0,0,3,0,0,0,0,0,4,0,1>>,
     <<1,0,2,0,0,0,0,0,0,0,0,3,0,0,0,0,0,4,0,1>>,
     <<1,0,2,0,0,0,0,0,0,0,0,3,0,0,0,0,0,4,0,1>>,
     <<1,0,2,0,0,0,0,0,0,0,0,3,0,0,0,0,0,4,0,1>>,
     <<1,0,2,0,0,0,0,0,0,0,0,3,0,0,0,0,0,4,0,1>>,
     <<1,0,0,0,0,0,0,0,0,0,0,0,0,0,0,0,0,0,0,1>>,
     <<1,0,0,0,0,0,0,0,0,0,0,0,0,0,0,0,0,0,0,1>>,
     <<1,0,0,0,0,0,0,0,0,0,0,0,0,0,0,0,0,0,0,1>>,
     <<1,0,2,2,2,2,2,0,0,0,0,3,3,3,0,0,4,4,4,1>>,
     <<1,0,0,0,0,0,2,0,0,0,0,3,0,0,0,0,4,0,0,1>>,
     <<1,0,0,0,0,0,2,0,0,0,0,3,0,0,0,0,0,0,0,1>>,
     <<1,0,0,0,0,0,2,0,0,0,0,3,0,0,0,0,4,0,0,1>>,
     <<1,0,0,0,0,0,2,0,0,0,0,3,0,0,0,0,4,0,0,1>>,
     <<1,0,0,0,0,0,2,0,0,0,0,3,0,0,0,0,4,0,0,1>>,
     <<1,0,0,0,0,0,2,0,0,0,0,3,0,0,0,0,4,0,0,1>>,
     <<1,1,1,1,1,1,1,1,1,1,1,1,1,1,1,1,1,1,1,1>> >>

MAP_W == Len(MAP[1])

MAP_H == Len(MAP)

\* PLANE_LEN = tan(FOV / 2) = tan(33 degrees) = 0.6494..., in 1/1000.
PLANE_LEN == 649

\* The player's start position (3.5, 10.5) and the starting ammo count.
PlayerStartX == 3500

PlayerStartY == 10500

StartAmmo == 20

\* ix, iy are 0-based cell indexes, as in the source; MAP is 1-based here.
in_map(ix, iy) == 0 <= ix /\ ix < MAP_W /\ 0 <= iy /\ iy < MAP_H

is_wall(ix, iy) == in_map(ix, iy) /\ MAP[iy + 1][ix + 1] > 0

-----------------------------------------------------------------------------
(* Enemy *)

\* Enemy.__init__; speed_multiplier is in tenths.
Enemy(x, y, health, speed_multiplier) ==
    [ x            |-> x,
      y            |-> y,
      alive        |-> TRUE,
      radius       |-> 350,
      base_speed   |-> 1400,
      speed        |-> (1400 * speed_multiplier) \div 10,
      height_param |-> 500,
      health       |-> health ]

\* A mutant of take_damage: the death test is health < 0.
take_damage_strict(self, amount) ==
    LET h == self.health - amount
    IN  IF h < 0
        THEN [self |-> [self EXCEPT !.health = h, !.alive = FALSE], ret |-> TRUE]
        ELSE [self |-> [self EXCEPT !.health = h], ret |-> FALSE]

\* Enemy.take_damage: the enemy after the call and the value returned.
take_damage(self, amount) ==
    LET h == self.health - amount
    IN  IF h <= 0
        THEN [self |-> [self EXCEPT !.health = h, !.alive = FALSE], ret |-> TRUE]
        ELSE [self |-> [self EXCEPT !.health = h], ret |-> FALSE]

\* A mutant of Enemy._try_move: the Y delta is applied without a test.
Enemy_try_move_y_untested(self, nx, ny) ==
    LET x1 == IF ~is_wall(int(nx), int(self.y)) THEN nx ELSE self.x
    IN  [self EXCEPT !.x = x1, !.y = ny]

\* A mutant of Enemy._try_move: both tests read the position before the move.
Enemy_try_move_independent(self, nx, ny) ==
    LET x1 == IF ~is_wall(int(nx), int(self.y)) THEN nx ELSE self.x
        y1 == IF ~is_wall(int(self.x), int(ny)) THEN ny ELSE self.y
    IN  [self EXCEPT !.x = x1, !.y = y1]

\* Enemy._try_move: the X test reads the old y, the Y test reads self.x as the
\* X test left it.
Enemy_try_move(self, nx, ny) ==
    LET x1 == IF ~is_wall(int(nx), int(self.y)) THEN nx ELSE self.x
        y1 == IF ~is_wall(int(x1), int(ny)) THEN ny ELSE self.y
    IN  [self EXCEPT !.x = x1, !.y = y1]

\* The point Enemy.update asks _try_move for, with the player at (px, py):
\* (self.x + ux * step, self.y + uy * step); ux, uy are in 1/1000.
Enemy_target(self, px, py, delta) ==
    LET dx == px - self.x
        dy == py - self.y
        dist == Isqrt(Hypot2(dx, dy))
        ux == Div(dx * 1000, dist)
        uy == Div(dy * 1000, dist)
        step == Div(self.speed * delta, 1000)
    IN  << self.x + Div(ux * step, 1000), self.y + Div(uy * step, 1000) >>

\* Enemy.update(dt) with the player at (px, py).  dist = hypot + 1e-9, so on
\* the 1/1000 grid dist > 0.75 is hypot^2 >= 0.75^2.
Enemy_update(self, px, py, delta) ==
    IF ~self.alive
    THEN self
    ELSE IF Hypot2(px - self.x, py - self.y) >= 750 * 750
         THEN LET t == Enemy_target(self, px, py, delta)
              IN  Enemy_try_move(self, t[1], t[2])
         ELSE self

\* sum(1 for e in enemies if e.alive)
AliveCount(es) == Cardinality({i \in 1..Len(es) : es[i].alive})

-----------------------------------------------------------------------------
(* WaveManager *)

\* WaveManager.__init__ (wave_start_time, a wall-clock stamp that is written
\* and never read, is left out).
WaveManager ==
    [ current_wave       |-> 0,
      enemies_spawned    |-> 0,
      wave_in_progress   |-> FALSE,
      between_waves      |-> FALSE,
      wave_countdown     |-> 0,
      countdown_duration |-> 5000 ]

\* A mutant of start_next_wave: the wave number restarts at 1 after wave 2.
start_next_wave_restart(self) ==
    [self EXCEPT !.current_wave = IF @ >= 2 THEN 1 ELSE @ + 1,
                 !.enemies_spawned = 0,
                 !.wave_in_progress = TRUE,
                 !.between_waves = FALSE]

\* A mutant of start_next_wave: the spawned counter is not reset.
start_next_wave_keep_spawned(self) ==
    [self EXCEPT !.current_wave = @ + 1,
                 !.wave_in_progress = TRUE,
                 !.between_waves = FALSE]

\* A mutant of start_next_wave: between_waves is left as it was.
start_next_wave_keep_between(self) ==
    [self EXCEPT !.current_wave = @ + 1,
                 !.enemies_spawned = 0,
                 !.wave_in_progress = TRUE]

start_next_wave(self) ==
    [self EXCEPT !.current_wave = @ + 1,
                 !.enemies_spawned = 0,
                 !.wave_in_progress = TRUE,
                 !.between_waves = FALSE]

\* A mutant of start_countdown: wave_in_progress is left set.
start_countdown_keep_active(self) ==
    [self EXCEPT !.between_waves = TRUE,
                 !.wave_countdown = self.countdown_duration]

start_countdown(self) ==
    [self EXCEPT !.between_waves = TRUE,
                 !.wave_in_progress = FALSE,
                 !.wave_countdown = self.countdown_duration]

\* A mutant of WaveManager.update: the bootstrap block is missing.
WaveManager_update_no_bootstrap(self, delta, es) ==
    LET s1 == IF self.between_waves
              THEN LET c == [self EXCEPT !.wave_countdown = @ - delta]
                   IN  IF c.wave_countdown <= 0 THEN start_next_wave(c) ELSE c
              ELSE self
    IN  IF s1.wave_in_progress /\ s1.enemies_spawned > 0 /\ AliveCount(es) = 0
        THEN start_countdown(s1)
        ELSE s1

\* A mutant of WaveManager.update: the wave ends once it has spawned, whether
\* or not an enemy is alive.
WaveManager_update_no_alive_test(self, delta, es) ==
    LET s1 == IF self.between_waves
              THEN LET c == [self EXCEPT !.wave_countdown = @ - delta]
                   IN  IF c.wave_countdown <= 0 THEN start_next_wave(c) ELSE c
              ELSE self
        s2 == IF ~s1.wave_in_progress /\ ~s1.between_waves
              THEN start_next_wave(s1)
              ELSE s1
    IN  IF s2.wave_in_progress /\ s2.enemies_spawned > 0
        THEN start_countdown(s2)
        ELSE s2

\* A mutant of WaveManager.update: the countdown is assigned
\* countdown_duration - dt instead of being decremented.
WaveManager_update_restarts(self, delta, es) ==
    LET s1 == IF self.between_waves
              THEN LET c == [self EXCEPT
                               !.wave_countdown = self.countdown_duration - delta]
                   IN  IF c.wave_countdown <= 0 THEN start_next_wave(c) ELSE c
              ELSE self
        s2 == IF ~s1.wave_in_progress /\ ~s1.between_waves
              THEN start_next_wave(s1)
              ELSE s1
    IN  IF s2.wave_in_progress /\ s2.enemies_spawned > 0 /\ AliveCount(es) = 0
        THEN start_countdown(s2)
        ELSE s2

\* WaveManager.update: its three "if" blocks, in order.
WaveManager_update(self, delta, es) ==
    LET s1 == IF self.between_waves
              THEN LET c == [self EXCEPT !.wave_countdown = @ - delta]
                   IN  IF c.wave_countdown <= 0 THEN start_next_wave(c) ELSE c
              ELSE self
        s2 == IF ~s1.wave_in_progress /\ ~s1.between_waves
              THEN start_next_wave(s1)
              ELSE s1
    IN  IF s2.wave_in_progress /\ s2.enemies_spawned > 0 /\ AliveCount(es) = 0
        THEN start_countdown(s2)
        ELSE s2

\* A mutant of get_enemies_for_wave: one more enemy per wave.
get_enemies_for_wave_plus_one(self) == 4 + (self.current_wave - 1) * 2

get_enemies_for_wave(self) == 3 + (self.current_wave - 1) * 2

get_enemy_health(self) == 1 + (self.current_wave - 1) \div 3

\* In tenths: 1.0 + min(1.0, (current_wave - 1) * 0.1).
get_enemy_speed_multiplier(self) == 10 + Min(10, (self.current_wave - 1) * 1)

\* A mutant of enemies_to_spawn: one enemy per call.
enemies_to_spawn_one(self) ==
    IF ~self.wave_in_progress
    THEN 0
    ELSE IF get_enemies_for_wave(self) - self.enemies_spawned <= 0
         THEN 0
         ELSE 1

\* The number of enemies one spawn_enemies call creates: 0 on either early
\* return, else the local enemies_to_spawn.
enemies_to_spawn(self) ==
    IF ~self.wave_in_progress
    THEN 0
    ELSE IF get_enemies_for_wave(self) - self.enemies_spawned <= 0
         THEN 0
         ELSE get_enemies_for_wave(self) - self.enemies_spawned

\* WaveManager.spawn_enemies; pos[i] is what the i-th call of
\* find_random_valid_position returns.
spawn_enemies(self, es, pos) ==
    LET n == enemies_to_spawn(self)
    IN  [self    |-> [self EXCEPT !.enemies_spawned = @ + n],
         enemies |-> es \o [i \in 1..n |->
                              Enemy(pos[i][1], pos[i][2], get_enemy_health(self),
                                    get_enemy_speed_multiplier(self))]]

-----------------------------------------------------------------------------
(* Bullet *)

\* Bullet.__init__; vx, vy are in 1/1000 units per second, age in ms.
Bullet(x, y, vx, vy) ==
    [ x            |-> x,
      y            |-> y,
      vx           |-> vx,
      vy           |-> vy,
      alive        |-> TRUE,
      age          |-> 0,
      height_param |-> 200 ]

\* A mutant of Bullet.update: a bullet stopped by a wall is left at the
\* destination.
Bullet_update_partial(self, delta) ==
    LET nx == self.x + Div(self.vx * delta, 1000)
        ny == self.y + Div(self.vy * delta, 1000)
    IN  IF ~self.alive
        THEN self
        ELSE IF is_wall(int(nx), int(ny))
             THEN [self EXCEPT !.alive = FALSE, !.x = nx, !.y = ny]
             ELSE [self EXCEPT !.x = nx,
                               !.y = ny,
                               !.age = @ + delta,
                               !.height_param = Min(650, @ + Div(350 * delta, 1000))]

\* Bullet.update(dt).
Bullet_update(self, delta) ==
    LET nx == self.x + Div(self.vx * delta, 1000)
        ny == self.y + Div(self.vy * delta, 1000)
    IN  IF ~self.alive
        THEN self
        ELSE IF is_wall(int(nx), int(ny))
             THEN [self EXCEPT !.alive = FALSE]
             ELSE [self EXCEPT !.x = nx,
                               !.y = ny,
                               !.age = @ + delta,
                               !.height_param = Min(650, @ + Div(350 * delta, 1000))]

-----------------------------------------------------------------------------
(* AmmoBox *)

\* AmmoBox.__init__.
AmmoBox(x, y) ==
    [ x               |-> x,
      y               |-> y,
      alive           |-> TRUE,
      radius          |-> 350,
      height_param    |-> 300,
      pickup_distance |-> 800 ]

\* A mutant of AmmoBox.update: the boundary is exclusive (dist < pickup_distance).
AmmoBox_update_exclusive(self, px, py, ammo) ==
    IF ~self.alive
    THEN [self |-> self, player_ammo |-> ammo]
    ELSE IF Hypot2(px - self.x, py - self.y)
                < self.pickup_distance * self.pickup_distance
         THEN [self |-> [self EXCEPT !.alive = FALSE], player_ammo |-> 20]
         ELSE [self |-> self, player_ammo |-> ammo]

\* AmmoBox.update(dt) with the player at (px, py) and player_ammo = ammo: the
\* box and player_ammo after the call.  dist <= pickup_distance is decided on
\* the squares.
AmmoBox_update(self, px, py, ammo) ==
    IF ~self.alive
    THEN [self |-> self, player_ammo |-> ammo]
    ELSE IF Within(px - self.x, py - self.y, self.pickup_distance)
         THEN [self |-> [self EXCEPT !.alive = FALSE], player_ammo |-> 20]
         ELSE [self |-> self, player_ammo |-> ammo]

-----------------------------------------------------------------------------
(* The fire event of main's event loop *)

\* A mutant of shoot: the ammo test is missing.
shoot_unchecked(bs, ammo, px, py, dx, dy) ==
    [ bullets     |-> Append(bs, Bullet(px + Div(dx * 4, 10), py + Div(dy * 4, 10),
                                        dx * 10, dy * 10)),
      player_ammo |-> ammo - 1,
      fired       |-> TRUE ]

\* The body of the K_SPACE branch and of the MOUSEBUTTONDOWN branch (the same
\* text twice): with ammo left, a bullet is appended at player + dir * 0.4
\* with velocity dir * 10.0 and the ammo count drops by one.
shoot(bs, ammo, px, py, dx, dy) ==
    IF ammo > 0
    THEN [ bullets     |-> Append(bs, Bullet(px + Div(dx * 4, 10),
                                             py + Div(dy * 4, 10),
                                             dx * 10, dy * 10)),
           player_ammo |-> ammo - 1,
           fired       |-> TRUE ]
    ELSE [ bullets |-> bs, player_ammo |-> ammo, fired |-> FALSE ]

-----------------------------------------------------------------------------
(* The raycaster: one column of cast_and_build_wall_batches, and the depth *)
(* of a billboard.                                                         *)

\* WIDTH of the window in pixels and FAR_PLANE in map units.
WIDTH == 1024

FAR_PLANE == 100

\* What x / 1e-9 is modelled as, for x > 0, in 1/1000 units: a distance
\* beyond every far plane.
PerpFar == 2000000000

\* in_map(ix, iy) on grid g: MAP_W = len(MAP[0]), MAP_H = len(MAP).
in_grid(g, ix, iy) == 0 <= ix /\ ix < Len(g[1]) /\ 0 <= iy /\ iy < Len(g)

\* clamp01, of a value in 1/1000.
clamp01(v) == IF v < 0 THEN 0 ELSE IF v > 1000 THEN 1000 ELSE v

\* a / b in 1/1000 for a in 1/1000 and b in 1/1000, b # 0; a / 1e-9 for b = 0.
Quot(a, b) ==
    IF b > 0 THEN Div(a * 1000, b)
    ELSE IF b < 0 THEN -Div(a * 1000, -b)
    ELSE IF a > 0 THEN PerpFar
    ELSE IF a < 0 THEN -PerpFar
    ELSE 0

\* a * b / c for integers a, b and c # 0, rounded toward zero, taking the
\* product of the remainder only.
MulDiv(a, b, c) ==
    LET aa == Abs(a)
        cc == Abs(c)
        q == (aa \div cc) * b + ((aa % cc) * b) \div cc
    IN  IF (a >= 0) = (c > 0) THEN q ELSE -q

\* The locals of column x before the DDA loop (lines 788-811).  side_dist_x
\* and side_dist_y are kept as multiples of delta_dist_x and delta_dist_y (in
\* 1/1000): the loop only compares them and adds one delta.
ray_begin(x, px, py, dx, dy, plx, ply) ==
    LET camera_x == Div(2000 * x, WIDTH) - 1000
        ray_dir_x == dx + Div(plx * camera_x, 1000)
        ray_dir_y == dy + Div(ply * camera_x, 1000)
        map_x == int(px)
        map_y == int(py)
    IN  [ phase       |-> "loop",
          x           |-> x,
          ray_dir_x   |-> ray_dir_x,
          ray_dir_y   |-> ray_dir_y,
          map_x       |-> map_x,
          map_y       |-> map_y,
          step_x      |-> IF ray_dir_x < 0 THEN -1 ELSE 1,
          step_y      |-> IF ray_dir_y < 0 THEN -1 ELSE 1,
          side_dist_x |-> IF ray_dir_x < 0 THEN px - map_x * 1000
                                           ELSE map_x * 1000 + 1000 - px,
          side_dist_y |-> IF ray_dir_y < 0 THEN py - map_y * 1000
                                           ELSE map_y * 1000 + 1000 - py,
          hit         |-> 0,
          side        |-> 0,
          tex_id      |-> 1,
          steps       |-> 0 ]

\* side_dist_x < side_dist_y, with delta_dist = abs(1 / ray_dir) or 1e30 for a
\* ray_dir of 0: the multiples are compared after cross-multiplication.
side_less(r) ==
    LET ax == Abs(r.ray_dir_x)
        ay == Abs(r.ray_dir_y)
    IN  IF ax # 0 /\ ay # 0 THEN r.side_dist_x * ay < r.side_dist_y * ax
        ELSE IF ax = 0 /\ ay = 0 THEN r.side_dist_x < r.side_dist_y
        ELSE IF ax = 0
             THEN r.side_dist_x < 0 \/ (r.side_dist_x = 0 /\ r.side_dist_y > 0)
             ELSE r.side_dist_y > 0 \/ (r.side_dist_y = 0 /\ r.side_dist_x < 0)

\* A mutant of the DDA step: a ray that leaves the map is not stopped.
dda_step_unbounded(r, g) ==
    LET along_x == side_less(r)
        map_x == IF along_x THEN r.map_x + r.step_x ELSE r.map_x
        map_y == IF along_x THEN r.map_y ELSE r.map_y + r.step_y
        wall == in_grid(g, map_x, map_y) /\ g[map_y + 1][map_x + 1] > 0
    IN  [r EXCEPT !.side_dist_x = IF along_x THEN @ + 1000 ELSE @,
                  !.side_dist_y = IF along_x THEN @ ELSE @ + 1000,
                  !.map_x = map_x,
                  !.map_y = map_y,
                  !.side = IF along_x THEN 0 ELSE 1,
                  !.steps = @ + 1,
                  !.hit = IF wall THEN 1 ELSE 0,
                  !.tex_id = IF wall THEN g[map_y + 1][map_x + 1] ELSE @]

\* One iteration of "while hit == 0" (lines 816-829) on grid g.
dda_step(r, g) ==
    LET along_x == side_less(r)
        map_x == IF along_x THEN r.map_x + r.step_x ELSE r.map_x
        map_y == IF along_x THEN r.map_y ELSE r.map_y + r.step_y
        inside == in_grid(g, map_x, map_y)
        wall == inside /\ g[map_y + 1][map_x + 1] > 0
    IN  [r EXCEPT !.side_dist_x = IF along_x THEN @ + 1000 ELSE @,
                  !.side_dist_y = IF along_x THEN @ ELSE @ + 1000,
                  !.map_x = map_x,
                  !.map_y = map_y,
                  !.side = IF along_x THEN 0 ELSE 1,
                  !.steps = @ + 1,
                  !.hit = IF ~inside \/ wall THEN 1 ELSE 0,
                  !.tex_id = IF ~inside THEN 1
                             ELSE IF wall THEN g[map_y + 1][map_x + 1] ELSE @]

\* A mutant of ray_finish: the distance is taken to the far face of the cell
\* that was hit.
ray_finish_far_face(r, px, py) ==
    LET perp == IF r.side = 0
                THEN Quot(r.map_x * 1000 - px + (1 + r.step_x) * 500, r.ray_dir_x)
                ELSE Quot(r.map_y * 1000 - py + (1 + r.step_y) * 500, r.ray_dir_y)
        wall_x == IF r.side = 0
                  THEN py + (IF r.ray_dir_y = 0 THEN 0
                             ELSE Div(perp * r.ray_dir_y, 1000))
                  ELSE px + (IF r.ray_dir_x = 0 THEN 0
                             ELSE Div(perp * r.ray_dir_x, 1000))
        frac == wall_x % 1000
        flip == (r.side = 0 /\ r.ray_dir_x > 0) \/ (r.side = 1 /\ r.ray_dir_y < 0)
    IN  [ phase |-> "done", x |-> r.x, ray_dir_x |-> r.ray_dir_x,
          ray_dir_y |-> r.ray_dir_y, map_x |-> r.map_x, map_y |-> r.map_y,
          side |-> r.side, tex_id |-> r.tex_id, steps |-> r.steps, hit |-> r.hit,
          perp_wall_dist |-> perp,
          u |-> IF flip THEN 1000 - frac ELSE frac,
          depth |-> clamp01(Div(perp, FAR_PLANE)) ]

\* The rest of the column after the loop (lines 831-859): perp_wall_dist,
\* the texture coordinate u (wall_x - floor(wall_x), flipped for two of the
\* four faces) and the depth.  What is kept of the vertices is u and depth.
ray_finish(r, px, py) ==
    LET perp == IF r.side = 0
                THEN Quot(r.map_x * 1000 - px + (1 - r.step_x) * 500, r.ray_dir_x)
                ELSE Quot(r.map_y * 1000 - py + (1 - r.step_y) * 500, r.ray_dir_y)
        wall_x == IF r.side = 0
                  THEN py + (IF r.ray_dir_y = 0 THEN 0
                             ELSE Div(perp * r.ray_dir_y, 1000))
                  ELSE px + (IF r.ray_dir_x = 0 THEN 0
                             ELSE Div(perp * r.ray_dir_x, 1000))
        frac == wall_x % 1000
        flip == (r.side = 0 /\ r.ray_dir_x > 0) \/ (r.side = 1 /\ r.ray_dir_y < 0)
    IN  [ phase |-> "done", x |-> r.x, ray_dir_x |-> r.ray_dir_x,
          ray_dir_y |-> r.ray_dir_y, map_x |-> r.map_x, map_y |-> r.map_y,
          side |-> r.side, tex_id |-> r.tex_id, steps |-> r.steps, hit |-> r.hit,
          perp_wall_dist |-> perp,
          u |-> IF flip THEN 1000 - frac ELSE frac,
          depth |-> clamp01(Div(perp, FAR_PLANE)) ]

\* A mutant of sprite_depth: the depth is scaled by half the far plane.
sprite_depth_half_far(sx, sy, px, py, dx, dy, plx, ply) ==
    LET spr_x == sx - px
        spr_y == sy - py
        det == plx * dy - dx * ply
        num == spr_y * plx - spr_x * ply
        trans_y == IF det = 0
                   THEN (IF num > 0 THEN PerpFar ELSE IF num < 0 THEN -PerpFar ELSE 0)
                   ELSE MulDiv(num, 1000, det)
    IN  [ trans_y |-> trans_y,
          visible |-> trans_y > 0,
          depth   |-> clamp01(Div(trans_y * 2, FAR_PLANE)) ]

\* The depth of the billboard of an entity at (sx, sy), the same text in
\* build_sprites_batch, build_enemies_batch and build_ammo_boxes_batch:
\* trans_y = inv_det * (-plane_y * spr_x + plane_x * spr_y), no quad when
\* trans_y <= 0, depth = clamp01(trans_y / FAR_PLANE).
sprite_depth(sx, sy, px, py, dx, dy, plx, ply) ==
    LET spr_x == sx - px
        spr_y == sy - py
        det == plx * dy - dx * ply
        num == spr_y * plx - spr_x * ply
        trans_y == IF det = 0
                   THEN (IF num > 0 THEN PerpFar ELSE IF num < 0 THEN -PerpFar ELSE 0)
                   ELSE MulDiv(num, 1000, det)
    IN  [ trans_y |-> trans_y,
          visible |-> trans_y > 0,
          depth   |-> clamp01(Div(trans_y, FAR_PLANE)) ]

-----------------------------------------------------------------------------
(* find_random_valid_position *)

\* Points the two random.uniform calls may draw; two of them are rejected by
\* the loop (a wall cell, and a point within 3.0 of the player's start).
SpawnCandidates ==
    { <<7000, 10500>>, <<12500, 4500>>, <<2500, 4500>>, <<4500, 10500>> }

\* The set of values find_random_valid_position can return, among the
\* candidates: inside [1.5, MAP_W - 1.5] x [1.5, MAP_H - 1.5], not in a wall
\* cell and farther than 3.0 from (3.5, 10.5).
find_random_valid_position ==
    { p \in SpawnCandidates :
        /\ 1500 <= p[1] /\ p[1] <= MAP_W * 1000 - 1500
        /\ 1500 <= p[2] /\ p[2] <= MAP_H * 1000 - 1500
        /\ ~is_wall(int(p[1]), int(p[2]))
        /\ Hypot2(p[1] - 3500, p[2] - 10500) > 3000 * 3000 }

\* The wave director does not read positions: in the specification of the
\* wave director every enemy is placed on one valid point, which keeps the
\* rosters of the later waves small.
WaveSpawnPoints == { p \in find_random_valid_position : p = <<12500, 4500>> }

-----------------------------------------------------------------------------
(* Player movement *)

\* try_move(nx, ny) with the player at (px, py): both tests read the
\* position before the move.
try_move(px, py, nx, ny) ==
    << IF ~is_wall(int(nx), int(py)) THEN nx ELSE px,
       IF ~is_wall(int(px), int(ny)) THEN ny ELSE py >>

\* A mutant of handle_input: a rotation replaces dir and leaves plane.
handle_input_dir_only(cam, ks, delta) ==
    LET rot == (IF "K_RIGHT" \in ks \/ "K_e" \in ks THEN 2 * delta ELSE 0)
                 - (IF "K_LEFT" \in ks \/ "K_q" \in ks THEN 2 * delta ELSE 0)
        cosr == cos_milli(rot)
        sinr == sin_milli(rot)
    IN  IF rot # 0
        THEN [cam EXCEPT
                !.dir_x = Div(cam.dir_x * cosr - cam.dir_y * sinr, 1000),
                !.dir_y = Div(cam.dir_x * sinr + cam.dir_y * cosr, 1000)]
        ELSE cam

\* A mutant of handle_input: the rotation assigns dir_x and plane_x before
\* dir_y and plane_y are computed from them.
handle_input_sequential(cam, ks, delta) ==
    LET rot == (IF "K_RIGHT" \in ks \/ "K_e" \in ks THEN 2 * delta ELSE 0)
                 - (IF "K_LEFT" \in ks \/ "K_q" \in ks THEN 2 * delta ELSE 0)
        cosr == cos_milli(rot)
        sinr == sin_milli(rot)
        ndx == Div(cam.dir_x * cosr - cam.dir_y * sinr, 1000)
        npx == Div(cam.plane_x * cosr - cam.plane_y * sinr, 1000)
        c1 == IF rot # 0
              THEN [cam EXCEPT
                      !.dir_x = ndx,
                      !.dir_y = Div(ndx * sinr + cam.dir_y * cosr, 1000),
                      !.plane_x = npx,
                      !.plane_y = Div(npx * sinr + cam.plane_y * cosr, 1000)]
              ELSE cam
        forward == (IF "K_w" \in ks \/ "K_UP" \in ks THEN 3 * delta ELSE 0)
                     - (IF "K_s" \in ks \/ "K_DOWN" \in ks THEN 3 * delta ELSE 0)
        m1 == try_move(c1.player_x, c1.player_y,
                       c1.player_x + Div(c1.dir_x * forward, 1000),
                       c1.player_y + Div(c1.dir_y * forward, 1000))
        c2 == IF forward # 0
              THEN [c1 EXCEPT !.player_x = m1[1], !.player_y = m1[2]]
              ELSE c1
        strafe == (IF "K_d" \in ks THEN Div(5 * delta, 2) ELSE 0)
                    - (IF "K_a" \in ks THEN Div(5 * delta, 2) ELSE 0)
        m2 == try_move(c2.player_x, c2.player_y,
                       c2.player_x + Div((-c2.dir_y) * strafe, 1000),
                       c2.player_y + Div(c2.dir_x * strafe, 1000))
    IN  IF strafe # 0
        THEN [c2 EXCEPT !.player_x = m2[1], !.player_y = m2[2]]
        ELSE c2

\* handle_input(dt): cam is the record of the six camera globals, ks the set
\* of keys held.  ROT_SPEED = 2.0 rad/s, MOVE_SPEED = 3.0, STRAFE_SPEED = 2.5.
handle_input(cam, ks, delta) ==
    LET rot == (IF "K_RIGHT" \in ks \/ "K_e" \in ks THEN 2 * delta ELSE 0)
                 - (IF "K_LEFT" \in ks \/ "K_q" \in ks THEN 2 * delta ELSE 0)
        cosr == cos_milli(rot)
        sinr == sin_milli(rot)
        c1 == IF rot # 0
              THEN [cam EXCEPT
                      !.dir_x = Div(cam.dir_x * cosr - cam.dir_y * sinr, 1000),
                      !.dir_y = Div(cam.dir_x * sinr + cam.dir_y * cosr, 1000),
                      !.plane_x = Div(cam.plane_x * cosr - cam.plane_y * sinr, 1000),
                      !.plane_y = Div(cam.plane_x * sinr + cam.plane_y * cosr, 1000)]
              ELSE cam
        forward == (IF "K_w" \in ks \/ "K_UP" \in ks THEN 3 * delta ELSE 0)
                     - (IF "K_s" \in ks \/ "K_DOWN" \in ks THEN 3 * delta ELSE 0)
        m1 == try_move(c1.player_x, c1.player_y,
                       c1.player_x + Div(c1.dir_x * forward, 1000),
                       c1.player_y + Div(c1.dir_y * forward, 1000))
        c2 == IF forward # 0
              THEN [c1 EXCEPT !.player_x = m1[1], !.player_y = m1[2]]
              ELSE c1
        strafe == (IF "K_d" \in ks THEN Div(5 * delta, 2) ELSE 0)
                    - (IF "K_a" \in ks THEN Div(5 * delta, 2) ELSE 0)
        m2 == try_move(c2.player_x, c2.player_y,
                       c2.player_x + Div((-c2.dir_y) * strafe, 1000),
                       c2.player_y + Div(c2.dir_x * strafe, 1000))
    IN  IF strafe # 0
        THEN [c2 EXCEPT !.player_x = m2[1], !.player_y = m2[2]]
        ELSE c2

-----------------------------------------------------------------------------
(* The bullet loop of main: update, then the combat scan *)

\* A mutant of the scan of the enemies: "if not e.alive: continue" is missing.
InRange_dead_too(b, es) ==
    { i \in 1..Len(es) :
        Within(es[i].x - b.x, es[i].y - b.y, es[i].radius) }

\* The alive enemies whose circle contains bullet b.
InRange(b, es) ==
    { i \in 1..Len(es) :
        /\ es[i].alive
        /\ Within(es[i].x - b.x, es[i].y - b.y, es[i].radius) }

\* The index of the first alive enemy, in list order, whose circle contains
\* bullet b; 0 when there is none.
FirstHit(b, es) ==
    LET hit == InRange(b, es)
    IN  IF hit = {} THEN 0 ELSE CHOOSE i \in hit : \A j \in hit : i <= j

RECURSIVE DamageAll(_, _, _)
\* take_damage(1) on every enemy of es whose index is in hit, from index i on.
DamageAll(es, hit, i) ==
    IF i > Len(es)
    THEN es
    ELSE DamageAll(IF i \in hit
                   THEN [es EXCEPT ![i] = take_damage(es[i], 1).self]
                   ELSE es,
                   hit, i + 1)

RECURSIVE BulletLoop_no_break(_, _, _, _)
\* A mutant of the bullet loop: the scan of the enemies does not stop at the
\* first hit.
BulletLoop_no_break(bs, es, i, delta) ==
    IF i > Len(bs)
    THEN [bullets |-> bs, enemies |-> es, log |-> <<>>]
    ELSE LET b == Bullet_update(bs[i], delta)
             hit == IF b.alive THEN InRange(b, es) ELSE {}
         IN  IF hit = {}
             THEN BulletLoop_no_break([bs EXCEPT ![i] = b], es, i + 1, delta)
             ELSE BulletLoop_no_break([bs EXCEPT ![i] = [b EXCEPT !.alive = FALSE]],
                                      DamageAll(es, hit, 1), i + 1, delta)

RECURSIVE BulletLoop(_, _, _, _)
\* "for b in bullets" from bullet i on: b.update(dt); a bullet still alive
\* scans the enemies, damages the first one it is inside by 1 and is
\* consumed.  log is the order in which the loop did this: <<"step", i>> for
\* the update of bullet i, <<"combat", i>> for its scan of the enemies.
BulletLoop(bs, es, i, delta) ==
    IF i > Len(bs)
    THEN [bullets |-> bs, enemies |-> es, log |-> <<>>]
    ELSE LET b == Bullet_update(bs[i], delta)
             h == IF b.alive THEN FirstHit(b, es) ELSE 0
             rest == IF h = 0
                     THEN BulletLoop([bs EXCEPT ![i] = b], es, i + 1, delta)
                     ELSE BulletLoop([bs EXCEPT ![i] = [b EXCEPT !.alive = FALSE]],
                                     [es EXCEPT ![h] = take_damage(es[h], 1).self],
                                     i + 1, delta)
         IN  [rest EXCEPT !.log = (IF b.alive
                                   THEN << <<"step", i>>, <<"combat", i>> >>
                                   ELSE << <<"step", i>> >>) \o @]

\* [x for x in xs if x.alive]
AliveOnly(xs) == SelectSeq(xs, LAMBDA x : x.alive)

RECURSIVE TotalHealth(_, _)
\* The sum of the health of enemies 1..n of es: what take_damage subtracts
\* from.
TotalHealth(es, n) ==
    IF n = 0 THEN 0 ELSE es[n].health + TotalHealth(es, n - 1)

RECURSIVE BoxLoop(_, _, _, _, _)
\* "for box in ammo_boxes: box.update(dt)" from box i on.
BoxLoop(bxs, i, px, py, ammo) ==
    IF i > Len(bxs)
    THEN [ammo_boxes |-> bxs, player_ammo |-> ammo]
    ELSE LET r == AmmoBox_update(bxs[i], px, py, ammo)
         IN  BoxLoop([bxs EXCEPT ![i] = r.self], i + 1, px, py, r.player_ammo)

-----------------------------------------------------------------------------
(* SpecWave: the wave director under any interleaving of update,           *)
(* spawn_enemies and enemy damage.                                         *)

\* The globals the raycaster reads, at start: MAP, dir = (1.0, 0.0) and
\* plane = (0.0, PLANE_LEN).
InitCamera ==
    /\ grid = MAP
    /\ dir_x = 1000
    /\ dir_y = 0
    /\ plane_x = 0
    /\ plane_y = PLANE_LEN

\* main's locals before the first tick, and the history variables.
InitLocals ==
    /\ bullets = <<>>
    /\ ammo_box_spawn_timer = 0
    /\ firing = FALSE
    /\ recoil_t = 0
    /\ running = TRUE
    /\ pc = "tick"
    /\ ray = [phase |-> "idle"]
    /\ dt = 0
    /\ events = <<>>
    /\ keys = {}
    /\ tick = 0
    /\ calls = 0
    /\ true_returns = 0

\* The module globals and main's locals before the first tick.
InitCommon ==
    /\ player_ammo = StartAmmo
    /\ player_x = PlayerStartX
    /\ player_y = PlayerStartY
    /\ InitCamera
    /\ InitLocals

InitWave ==
    /\ InitCommon
    /\ ammo_boxes = <<>>
    /\ wave_manager = WaveManager
    /\ enemies = <<>>
    /\ wave_base = 0
    /\ hist = [op |-> "init"]

\* wave_manager.update(dt, enemies), main line 1509.
UpdateWave(d) ==
    LET new == WaveManager_update(wave_manager, d, enemies)
    IN  /\ new.current_wave <= MaxWave
        /\ wave_manager' = new
        /\ wave_base' = IF new.current_wave # wave_manager.current_wave
                        THEN Len(enemies)
                        ELSE wave_base
        /\ hist' = [op |-> "update", dt |-> d, wm |-> wave_manager,
                    created |-> Len(enemies) - wave_base]
        /\ UNCHANGED <<rayVars, enemies, player_ammo, playerVars, loopVars, ammo_boxes,
                       calls, true_returns>>

\* wave_manager.spawn_enemies(enemies), main line 1512.
SpawnWave ==
    \E pos \in [1..enemies_to_spawn(wave_manager) -> WaveSpawnPoints] :
        LET r == spawn_enemies(wave_manager, enemies, pos)
        IN  /\ wave_manager' = r.self
            /\ enemies' = r.enemies
            /\ hist' = [op |-> "spawn", wm |-> wave_manager, n |-> Len(enemies),
                        alive |-> AliveCount(enemies)]
            /\ UNCHANGED <<rayVars, wave_base, player_ammo, playerVars, loopVars,
                           ammo_boxes, calls, true_returns>>

\* Whether the model damages enemy i now: any alive enemy in the waves up to
\* MaxFreeWave, the first alive enemy of the list in the later waves.
MayDamage(i) ==
    /\ enemies[i].alive
    /\ wave_manager.current_wave > MaxFreeWave =>
           \A j \in 1..(i - 1) : ~enemies[j].alive

\* A bullet hits enemy i: e.take_damage(1) on an alive enemy, main lines
\* 1519-1526.
DamageEnemy ==
    \E i \in 1..Len(enemies) :
        /\ MayDamage(i)
        /\ LET r == take_damage(enemies[i], 1)
           IN  /\ enemies' = [enemies EXCEPT ![i] = r.self]
               /\ hist' = [op |-> "damage", i |-> i, ret |-> r.ret,
                           wm |-> wave_manager]
        /\ UNCHANGED <<rayVars, wave_manager, wave_base, player_ammo, playerVars,
                       loopVars, ammo_boxes, calls, true_returns>>

NextWave ==
    \/ \E d \in DtSet : UpdateWave(d)
    \/ SpawnWave
    \/ DamageEnemy

SpecWave == InitWave /\ [][NextWave]_vars

\* SpecWave, with main's loop calling wave_manager.update(dt, enemies) once
\* per tick (line 1509) for as long as it runs: an update that stays possible
\* is eventually made.
SpecWaveFair ==
    InitWave /\ [][NextWave]_vars /\ WF_vars(\E d \in DtSet : UpdateWave(d))

-----------------------------------------------------------------------------
(* SpecEnemy: Enemy.take_damage called repeatedly on one enemy.            *)

InitEnemy ==
    /\ InitCommon
    /\ ammo_boxes = <<>>
    /\ wave_manager = WaveManager
    /\ wave_base = 0
    /\ \E p \in find_random_valid_position, h \in 1..MaxHealth :
           enemies = << Enemy(p[1], p[2], h, 10) >>
    /\ hist = [op |-> "init"]

\* enemies[1].take_damage(a), whether or not the enemy is still alive.
TakeDamageCall(a) ==
    LET r == take_damage(enemies[1], a)
    IN  /\ calls < MaxCalls
        /\ enemies' = << r.self >>
        /\ calls' = calls + 1
        /\ true_returns' = IF r.ret THEN true_returns + 1 ELSE true_returns
        /\ hist' = [op |-> "take_damage", amount |-> a, e |-> enemies[1],
                    ret |-> r.ret]
        /\ UNCHANGED <<rayVars, wave_manager, wave_base, player_ammo, playerVars,
                       loopVars, ammo_boxes>>

NextEnemy == \E a \in 1..MaxDamage : TakeDamageCall(a)

SpecEnemy == InitEnemy /\ [][NextEnemy]_vars

-----------------------------------------------------------------------------
(* SpecAmmoBox: AmmoBox.update and the fire event on one box, with the     *)
(* player placed around it.                                                *)

\* Player positions relative to the box: on it, on the pickup boundary (along
\* an axis and on the 3-4-5 diagonal), just outside the boundary, just inside.
ProbeOffsets ==
    { <<0, 0>>, <<800, 0>>, <<-480, 640>>, <<801, 0>>, <<-480, 641>>, <<0, -799>> }

InitAmmoBox ==
    /\ InitCamera
    /\ InitLocals
    /\ wave_manager = WaveManager
    /\ enemies = <<>>
    /\ wave_base = 0
    /\ \E p \in find_random_valid_position, o \in ProbeOffsets :
           /\ ammo_boxes = << AmmoBox(p[1], p[2]) >>
           /\ player_x = p[1] + o[1]
           /\ player_y = p[2] + o[2]
    /\ player_ammo \in 0..StartAmmo
    /\ hist = [op |-> "init"]

\* ammo_boxes[1].update(dt)
BoxUpdate ==
    LET r == AmmoBox_update(ammo_boxes[1], player_x, player_y, player_ammo)
    IN  /\ calls < MaxCalls
        /\ calls' = calls + 1
        /\ ammo_boxes' = << r.self >>
        /\ player_ammo' = r.player_ammo
        /\ hist' = [op |-> "box_update", box |-> ammo_boxes[1],
                    ammo |-> player_ammo]
        /\ UNCHANGED <<rayVars, wave_manager, enemies, wave_base, playerVars, loopVars,
                       true_returns>>

\* A fire event (K_SPACE or left mouse button).
Shoot ==
    LET r == shoot(bullets, player_ammo, player_x, player_y, dir_x, dir_y)
    IN  /\ calls < MaxCalls
        /\ calls' = calls + 1
        /\ bullets' = r.bullets
        /\ player_ammo' = r.player_ammo
        /\ firing' = (r.fired \/ firing)
        /\ recoil_t' = IF r.fired THEN 0 ELSE recoil_t
        /\ hist' = [op |-> "shoot", ammo |-> player_ammo]
        /\ UNCHANGED <<rayVars, wave_manager, enemies, wave_base, ammo_boxes, playerVars,
                       ammo_box_spawn_timer, running, pc, dt, events, keys,
                       tick, true_returns>>

NextAmmoBox == BoxUpdate \/ Shoot

SpecAmmoBox == InitAmmoBox /\ [][NextAmmoBox]_vars

-----------------------------------------------------------------------------
(* SpecBullet: Bullet.update called repeatedly on one bullet.              *)

\* Bullets (x, y, vx, vy): towards the wall cell (11,2) two cells away, the
\* player's first shot, a bullet at (2.5, 2.5) with velocity (10, 0), a slow
\* one, a diagonal one, two that fly towards the west and north borders, and
\* one that flies towards the one-cell-thick wall (2,5) from the cell west
\* of it.
BulletStarts ==
    { <<9500, 2500, 10000, 0>>, <<3900, 10500, 10000, 0>>,
      <<2500, 2500, 10000, 0>>, <<3500, 10500, 1000, 0>>,
      <<3500, 10500, 6000, -8000>>, <<1500, 1500, -10000, 0>>,
      <<1500, 1500, 0, -10000>>, <<1500, 5500, 10000, 0>> }

\* The frame times (ms) a bullet is stepped with.
BulletDtSet == {200, 1000}

InitBullet ==
    /\ InitCommon
    /\ ammo_boxes = <<>>
    /\ wave_manager = WaveManager
    /\ enemies = <<>>
    /\ wave_base = 0
    /\ hist = [op |-> "init"]

\* main's "bullets.append(Bullet(bx, by, bvx, bvy))" for the one bullet.
NewBullet ==
    /\ bullets = <<>>
    /\ \E s \in BulletStarts : bullets' = << Bullet(s[1], s[2], s[3], s[4]) >>
    /\ hist' = [op |-> "new_bullet"]
    /\ UNCHANGED <<rayVars, wave_manager, enemies, ammo_boxes, player_ammo, playerVars,
                   ammo_box_spawn_timer, firing, recoil_t, running, pc, dt,
                   events, keys, tick, wave_base, calls, true_returns>>

\* bullets[1].update(d), whether or not the bullet is still alive.
BulletStep(d) ==
    /\ bullets # <<>>
    /\ calls < MaxCalls
    /\ calls' = calls + 1
    /\ bullets' = << Bullet_update(bullets[1], d) >>
    /\ hist' = [op |-> "bullet_update", dt |-> d, b |-> bullets[1]]
    /\ UNCHANGED <<rayVars, wave_manager, enemies, ammo_boxes, player_ammo, playerVars,
                   ammo_box_spawn_timer, firing, recoil_t, running, pc, dt,
                   events, keys, tick, wave_base, true_returns>>

NextBullet == NewBullet \/ \E d \in BulletDtSet : BulletStep(d)

SpecBullet == InitBullet /\ [][NextBullet]_vars

-----------------------------------------------------------------------------
(* SpecCombat: the bullet loop of main on a roster of enemies.             *)

\* The longest roster of enemies and the longest list of bullets, and the
\* number of passes of the bullet loop.
MaxRoster == 3
MaxMagazine == 2
MaxPasses == 2

\* Enemies: of health 1 and of health 2 at (7.0, 10.5), one already dead at
\* the same place, one at (7.2, 10.5), and one at (9.5, 2.5), two cells west
\* of the wall cell (11,2).
CombatEnemies ==
    { Enemy(7000, 10500, 1, 10),
      Enemy(7000, 10500, 2, 10),
      [Enemy(7000, 10500, 1, 10) EXCEPT !.alive = FALSE, !.health = 0],
      Enemy(7200, 10500, 1, 10),
      Enemy(9500, 2500, 1, 10) }

\* Bullets: the player's shot from (3.5, 10.5) along +x, the same shot one
\* unit further, and a shot from (9.5, 2.5) towards the wall cell (11,2).
CombatBullets ==
    { Bullet(3900, 10500, 10000, 0),
      Bullet(4900, 10500, 10000, 0),
      Bullet(9500, 2500, 10000, 0) }

\* The frame times (ms) of a pass: 0.3 s takes the first bullet to
\* (6.9, 10.5), 0.2 s takes the second there and the third into the wall.
CombatDtSet == {200, 300}

\* Every list of 1..n elements of S.
ListsUpTo(S, n) == UNION { [1..k -> S] : k \in 1..n }

InitCombat ==
    /\ InitCommon
    /\ ammo_boxes = <<>>
    /\ wave_manager = WaveManager
    /\ wave_base = 0
    /\ enemies \in ListsUpTo(CombatEnemies, MaxRoster)
    /\ hist = [op |-> "init"]

\* The bullets fired before the pass: main's bullets.append(...), 1 to
\* MaxMagazine times.
FireBullets ==
    /\ hist.op = "init"
    /\ \E bs \in ListsUpTo(CombatBullets, MaxMagazine) :
           /\ bullets' = bs
           /\ hist' = [op |-> "fire", dealt |-> 0, fired |-> Len(bs)]
    /\ UNCHANGED <<rayVars, wave_manager, enemies, ammo_boxes, player_ammo, playerVars,
                   ammo_box_spawn_timer, firing, recoil_t, running, pc, dt,
                   events, keys, tick, wave_base, calls, true_returns>>

\* One pass of "for b in bullets: ..." and the filter that follows it.
CombatPass(d) ==
    LET r == BulletLoop(bullets, enemies, 1, d)
    IN  /\ hist.op # "init"
        /\ calls < MaxPasses
        /\ calls' = calls + 1
        /\ bullets' = AliveOnly(r.bullets)
        /\ enemies' = r.enemies
        /\ hist' = [op |-> "combat", dt |-> d, bullets |-> bullets,
                    enemies |-> enemies,
                    dealt |-> hist.dealt + TotalHealth(enemies, Len(enemies))
                                         - TotalHealth(r.enemies, Len(enemies)),
                    fired |-> hist.fired]
        /\ UNCHANGED <<rayVars, wave_manager, ammo_boxes, player_ammo, playerVars,
                       ammo_box_spawn_timer, firing, recoil_t, running, pc, dt,
                       events, keys, tick, wave_base, true_returns>>

NextCombat == FireBullets \/ \E d \in CombatDtSet : CombatPass(d)

SpecCombat == InitCombat /\ [][NextCombat]_vars

-----------------------------------------------------------------------------
(* SpecRay: cast_and_build_wall_batches, one action per iteration of the   *)
(* DDA loop, and the depth of a billboard, on several maps.                *)

\* A 5x5 grid with border walls of material 2 and an empty interior.
Room5 ==
  << <<2,2,2,2,2>>,
     <<2,0,0,0,2>>,
     <<2,0,0,0,2>>,
     <<2,0,0,0,2>>,
     <<2,2,2,2,2>> >>

\* Room5 with a pillar of material 3 in the interior.
Room5Pillar == [Room5 EXCEPT ![2][4] = 3]

\* Room5 with a gap in the east border and one in the south border.
Room5Gap == [Room5 EXCEPT ![3][5] = 0, ![5][2] = 0]

\* The maps the raycaster is run on: the game's MAP and the three rooms.
RayMaps == { MAP, Room5, Room5Pillar, Room5Gap }

\* All border cells of g are walls.
OpaqueBorder(g) ==
    /\ \A ix \in 0..(Len(g[1]) - 1) : g[1][ix + 1] > 0 /\ g[Len(g)][ix + 1] > 0
    /\ \A iy \in 0..(Len(g) - 1) : g[iy + 1][1] > 0 /\ g[iy + 1][Len(g[1])] > 0

\* Camera positions: the centre of a cell, a point on a grid line, a point
\* off centre, and the player's start in the game's MAP.
RayPositions ==
    { <<2500, 2500>>, <<2500, 2000>>, <<1250, 3750>>, <<3500, 10500>> }

\* Camera directions and planes: facing +x, -x, +y, -y, rotated by 0.6 rad
\* from +x, and the degenerate camera of length 0.
RayCameras ==
    { [dir_x |-> 1000,  dir_y |-> 0,     plane_x |-> 0,    plane_y |-> PLANE_LEN],
      [dir_x |-> -1000, dir_y |-> 0,     plane_x |-> 0,    plane_y |-> -PLANE_LEN],
      [dir_x |-> 0,     dir_y |-> 1000,  plane_x |-> -PLANE_LEN, plane_y |-> 0],
      [dir_x |-> 0,     dir_y |-> -1000, plane_x |-> PLANE_LEN,  plane_y |-> 0],
      [dir_x |-> 825,   dir_y |-> 565,   plane_x |-> -367, plane_y |-> 535],
      [dir_x |-> 0,     dir_y |-> 0,     plane_x |-> 0,    plane_y |-> 0] }

\* The screen columns cast: the first, the last, the centre and two between.
RayColumns == { 0, 256, 512, 768, WIDTH - 1 }

\* Where a billboard stands, relative to the camera position.
SpriteOffsets ==
    { <<1500, 0>>, <<1000, 0>>, <<2000, 300>>, <<-1000, 0>>, <<150000, 0>>,
      <<500, -200>>, <<0, 1500>>, <<-300, -2500>> }

InitRay ==
    /\ InitLocals
    /\ player_ammo = StartAmmo
    /\ wave_manager = WaveManager
    /\ enemies = <<>>
    /\ ammo_boxes = <<>>
    /\ wave_base = 0
    /\ grid \in RayMaps
    /\ \E p \in RayPositions :
           /\ in_grid(grid, int(p[1]), int(p[2]))
           /\ grid[int(p[2]) + 1][int(p[1]) + 1] = 0
           /\ player_x = p[1]
           /\ player_y = p[2]
    /\ \E c \in RayCameras :
           /\ dir_x = c.dir_x
           /\ dir_y = c.dir_y
           /\ plane_x = c.plane_x
           /\ plane_y = c.plane_y
    /\ hist = [op |-> "init"]

\* "for x in range(WIDTH):" reaches column x: the locals before the loop.
BeginColumn ==
    /\ ray.phase \in {"idle", "done"}
    /\ \E x \in RayColumns :
           ray' = ray_begin(x, player_x, player_y, dir_x, dir_y, plane_x, plane_y)
    /\ hist' = [op |-> "column"]
    /\ UNCHANGED <<grid, wave_manager, enemies, ammo_boxes, player_ammo,
                   playerVars, loopVars, wave_base, calls, true_returns>>

\* One iteration of "while hit == 0".
DdaStep ==
    /\ ray.phase = "loop"
    /\ ray.hit = 0
    /\ ray' = dda_step(ray, grid)
    /\ hist' = [op |-> "dda", map_x |-> ray.map_x, map_y |-> ray.map_y]
    /\ UNCHANGED <<grid, wave_manager, enemies, ammo_boxes, player_ammo,
                   playerVars, loopVars, wave_base, calls, true_returns>>

\* The loop has ended: the distance, u and depth of the column.
EndColumn ==
    /\ ray.phase = "loop"
    /\ ray.hit # 0
    /\ ray' = ray_finish(ray, player_x, player_y)
    /\ hist' = [op |-> "wall"]
    /\ UNCHANGED <<grid, wave_manager, enemies, ammo_boxes, player_ammo,
                   playerVars, loopVars, wave_base, calls, true_returns>>

\* The billboard of an entity, built after the walls of the frame.
BuildSprite ==
    /\ ray.phase = "done"
    /\ \E o \in SpriteOffsets :
           LET s == sprite_depth(player_x + o[1], player_y + o[2],
                                 player_x, player_y, dir_x, dir_y,
                                 plane_x, plane_y)
           IN  hist' = [op |-> "sprite", trans_y |-> s.trans_y,
                        visible |-> s.visible, depth |-> s.depth]
    /\ UNCHANGED <<rayVars, wave_manager, enemies, ammo_boxes, player_ammo,
                   playerVars, loopVars, wave_base, calls, true_returns>>

NextRay == BeginColumn \/ DdaStep \/ EndColumn \/ BuildSprite

SpecRay == InitRay /\ [][NextRay]_vars

-----------------------------------------------------------------------------
(* SpecChase: Enemy.update called repeatedly on one enemy that chases the  *)
(* player.                                                                 *)

\* Scenes (enemy x, enemy y, player x, player y): a diagonal move towards
\* the corner of the wall cell (2,2); a diagonal move past the end (2,8) of
\* a wall; the player exactly 0.75 away, and nearer; a move along +x blocked
\* by the wall cell (2,5); a free run across the map.
ChaseScenes ==
    { <<1900, 1900, 5900, 5900>>, <<2900, 9100, 6900, 5100>>,
      <<7000, 10500, 7750, 10500>>, <<7000, 10500, 7500, 10500>>,
      <<1900, 5500, 5900, 5600>>, <<12500, 4500, 3500, 10500>> }

\* The frame times (ms) the enemy is stepped with.
ChaseDtSet == {300, 1000}

InitChase ==
    /\ InitCamera
    /\ InitLocals
    /\ player_ammo = StartAmmo
    /\ ammo_boxes = <<>>
    /\ wave_manager = WaveManager
    /\ wave_base = 0
    /\ \E s \in ChaseScenes, a \in BOOLEAN :
           /\ enemies = << [Enemy(s[1], s[2], 1, 10) EXCEPT !.alive = a] >>
           /\ player_x = s[3]
           /\ player_y = s[4]
    /\ hist = [op |-> "init"]

\* enemies[1].update(d)
ChaseStep(d) ==
    /\ calls < MaxCalls
    /\ calls' = calls + 1
    /\ enemies' = << Enemy_update(enemies[1], player_x, player_y, d) >>
    /\ hist' = [op |-> "enemy_update", dt |-> d, e |-> enemies[1]]
    /\ UNCHANGED <<rayVars, wave_manager, ammo_boxes, player_ammo, playerVars,
                   loopVars, wave_base, true_returns>>

NextChase == \E d \in ChaseDtSet : ChaseStep(d)

SpecChase == InitChase /\ [][NextChase]_vars

-----------------------------------------------------------------------------
(* SpecLoad: the module is loaded with some MAP literal (lines 147-170),   *)
(* then the raycaster casts columns on it.                                 *)

\* Room5 with a negative value in the east border.
Room5Negative == [Room5 EXCEPT ![3][5] = -1]

\* Room5 with a row longer than the first row.
Room5Ragged == [Room5 EXCEPT ![3] = <<2, 0, 0, 0, 0, 2>>]

\* The MAP literals the module is loaded with; the empty list is the one
\* for which "MAP_W = len(MAP[0])" raises.
LoadMaps == { Room5, Room5Negative, Room5Ragged, <<>> }

InitLoad ==
    /\ InitLocals
    /\ player_ammo = StartAmmo
    /\ wave_manager = WaveManager
    /\ enemies = <<>>
    /\ ammo_boxes = <<>>
    /\ wave_base = 0
    /\ grid \in LoadMaps
    /\ player_x = 2500
    /\ player_y = 2500
    /\ \E c \in RayCameras :
           /\ dir_x = c.dir_x
           /\ dir_y = c.dir_y
           /\ plane_x = c.plane_x
           /\ plane_y = c.plane_y
    /\ hist = [op |-> "init"]

\* "MAP_W = len(MAP[0])" and "MAP_H = len(MAP)": the only statements run on
\* MAP when the module is loaded. They raise for an empty list only.
LoadMap ==
    /\ hist.op = "init"
    /\ hist' = [op |-> "load", raised |-> (grid = <<>>)]
    /\ UNCHANGED <<rayVars, wave_manager, enemies, ammo_boxes, player_ammo,
                   playerVars, loopVars, wave_base, calls, true_returns>>

\* The first column of a frame, once the module is loaded.
LoadedBeginColumn ==
    /\ hist.op # "init"
    /\ hist.op = "load" => ~hist.raised
    /\ BeginColumn

NextLoad == LoadMap \/ LoadedBeginColumn \/ DdaStep \/ EndColumn

SpecLoad == InitLoad /\ [][NextLoad]_vars

-----------------------------------------------------------------------------
(* SpecInput: handle_input called once per tick on the camera globals,     *)
(* with the keys held and the frame time of each tick chosen freely.       *)

\* handle_input is explored up to this number of calls.
MaxInputs == 4

\* The keys held and the frame time (ms) of one call: rotations by 0.6, 2.0
\* and 5.0 rad either way, both rotation keys at once, steps forward and
\* backward of 0.3, 0.9 and 3.0, strafes of 0.5, and mixed calls.
InputFrames ==
    { [keys |-> {"K_e"},              dt |-> 300],
      [keys |-> {"K_LEFT"},           dt |-> 300],
      [keys |-> {"K_RIGHT"},          dt |-> 1000],
      [keys |-> {"K_q"},              dt |-> 2500],
      [keys |-> {"K_q", "K_RIGHT"},   dt |-> 300],
      [keys |-> {"K_w"},              dt |-> 100],
      [keys |-> {"K_s"},              dt |-> 100],
      [keys |-> {"K_UP"},             dt |-> 300],
      [keys |-> {"K_DOWN"},           dt |-> 300],
      [keys |-> {"K_w"},              dt |-> 1000],
      [keys |-> {"K_a"},              dt |-> 200],
      [keys |-> {"K_d"},              dt |-> 200],
      [keys |-> {"K_e", "K_s", "K_d"}, dt |-> 300],
      [keys |-> {},                   dt |-> 16] }

InitInput ==
    /\ InitCommon
    /\ wave_manager = WaveManager
    /\ enemies = <<>>
    /\ ammo_boxes = <<>>
    /\ wave_base = 0
    /\ hist = [op |-> "init"]

\* One call handle_input(dt) with the keys of the tick held.
InputStep ==
    /\ calls < MaxInputs
    /\ \E f \in InputFrames :
           LET c == handle_input([player_x |-> player_x, player_y |-> player_y,
                                  dir_x |-> dir_x, dir_y |-> dir_y,
                                  plane_x |-> plane_x, plane_y |-> plane_y],
                                 f.keys, f.dt)
           IN  /\ player_x' = c.player_x
               /\ player_y' = c.player_y
               /\ dir_x' = c.dir_x
               /\ dir_y' = c.dir_y
               /\ plane_x' = c.plane_x
               /\ plane_y' = c.plane_y
               /\ hist' = [op |-> "handle_input", keys |-> f.keys, dt |-> f.dt,
                           player_x |-> player_x, player_y |-> player_y,
                           dir_x |-> dir_x, dir_y |-> dir_y]
    /\ calls' = calls + 1
    /\ UNCHANGED <<rayVars, wave_manager, enemies, ammo_boxes, player_ammo,
                   loopVars, wave_base, true_returns>>

NextInput == InputStep

SpecInput == InitInput /\ [][NextInput]_vars

-----------------------------------------------------------------------------
(* Spec: main's game loop, one action per phase of the tick.               *)

\* StartAmmo + 1 fire events in one tick: more than the ammo count.
FireBurst == [i \in 1..(StartAmmo + 1) |-> "K_SPACE"]

\* What one tick reads from its collaborators: dt = clock.tick(FPS) (ms), the
\* events of pygame.event.get() and the keys held (pygame.key.get_pressed()).
\* Events: QUIT, KEYDOWN of K_TAB / K_ESCAPE / K_SPACE, MOUSEBUTTONDOWN of
\* button 1 (MOUSE1), and OTHER for any event the loop ignores.
FrameInputs ==
    { [dt |-> 1000,  events |-> << "K_SPACE" >>,          keys |-> {"K_w"}],
      [dt |-> 300,   events |-> << "MOUSE1", "K_SPACE" >>, keys |-> {}],
      [dt |-> 300,   events |-> FireBurst,                 keys |-> {}],
      [dt |-> 2500,  events |-> << "K_TAB", "OTHER" >>,
                     keys |-> {"K_RIGHT", "K_s", "K_a"}],
      [dt |-> 1000,  events |-> << "K_ESCAPE" >>,
                     keys |-> {"K_q", "K_UP", "K_d"}],
      [dt |-> 300,   events |-> << "QUIT" >>,
                     keys |-> {"K_e", "K_DOWN", "K_LEFT"}],
      [dt |-> 10000, events |-> << >>,                     keys |-> {}] }

\* main before the loop: one ammo box at a random valid position.
Init ==
    /\ InitCommon
    /\ wave_manager = WaveManager
    /\ enemies = <<>>
    /\ wave_base = 0
    /\ \E p \in find_random_valid_position :
           ammo_boxes = << AmmoBox(p[1], p[2]) >>
    /\ hist = [op |-> "init", ammo |-> StartAmmo]

\* "while running:" holds; dt = clock.tick(FPS) / 1000.0 and the tick's input.
BeginTick ==
    /\ pc = "tick"
    /\ running
    /\ tick < MaxTicks
    /\ \E f \in FrameInputs :
           /\ dt' = f.dt
           /\ events' = f.events
           /\ keys' = f.keys
    /\ pc' = "events"
    /\ hist' = [op |-> "tick", ammo |-> player_ammo]
    /\ UNCHANGED <<rayVars, wave_manager, enemies, ammo_boxes, player_ammo, playerVars,
                   bullets, ammo_box_spawn_timer, firing, recoil_t, running,
                   tick, wave_base, calls, true_returns>>

\* One iteration of "for event in pygame.event.get()".
HandleEvent ==
    /\ pc = "events"
    /\ events # <<>>
    /\ LET ev == Head(events)
           r == shoot(bullets, player_ammo, player_x, player_y, dir_x, dir_y)
           fire == ev \in {"K_SPACE", "MOUSE1"}
       IN  /\ running' = IF ev \in {"QUIT", "K_ESCAPE"} THEN FALSE ELSE running
           /\ bullets' = IF fire THEN r.bullets ELSE bullets
           /\ player_ammo' = IF fire THEN r.player_ammo ELSE player_ammo
           /\ firing' = IF fire /\ r.fired THEN TRUE ELSE firing
           /\ recoil_t' = IF fire /\ r.fired THEN 0 ELSE recoil_t
           /\ hist' = [op |-> "event", ev |-> ev, ammo |-> player_ammo,
                       nb |-> Len(bullets)]
    /\ events' = Tail(events)
    /\ UNCHANGED <<rayVars, wave_manager, enemies, ammo_boxes, playerVars,
                   ammo_box_spawn_timer, pc, dt, keys, tick, wave_base, calls,
                   true_returns>>

\* A mutant of the tick: the wave update is skipped.
HandleInput_skip_wave ==
    /\ pc = "events"
    /\ events = <<>>
    /\ pc' = "spawn"
    /\ hist' = [op |-> "input", ammo |-> player_ammo]
    /\ UNCHANGED <<rayVars, wave_manager, enemies, ammo_boxes, player_ammo,
                   playerVars, bullets, ammo_box_spawn_timer, firing, recoil_t,
                   running, dt, events, keys, tick, wave_base, calls,
                   true_returns>>

\* handle_input(dt), after the last event.
HandleInput ==
    /\ pc = "events"
    /\ events = <<>>
    /\ LET c == handle_input([player_x |-> player_x, player_y |-> player_y,
                              dir_x |-> dir_x, dir_y |-> dir_y,
                              plane_x |-> plane_x, plane_y |-> plane_y],
                             keys, dt)
       IN  /\ player_x' = c.player_x
           /\ player_y' = c.player_y
           /\ dir_x' = c.dir_x
           /\ dir_y' = c.dir_y
           /\ plane_x' = c.plane_x
           /\ plane_y' = c.plane_y
    /\ pc' = "wave"
    /\ hist' = [op |-> "input", ammo |-> player_ammo]
    /\ UNCHANGED <<rayVars, wave_manager, enemies, ammo_boxes, player_ammo, bullets,
                   ammo_box_spawn_timer, firing, recoil_t, running, dt, events,
                   keys, tick, wave_base, calls, true_returns>>

\* wave_manager.update(dt, enemies)
WaveUpdate ==
    /\ pc = "wave"
    /\ LET new == WaveManager_update(wave_manager, dt, enemies)
       IN  /\ wave_manager' = new
           /\ wave_base' = IF new.current_wave # wave_manager.current_wave
                           THEN Len(enemies)
                           ELSE wave_base
    /\ pc' = "spawn"
    /\ hist' = [op |-> "update", dt |-> dt, wm |-> wave_manager,
                created |-> Len(enemies) - wave_base, ammo |-> player_ammo]
    /\ UNCHANGED <<rayVars, enemies, ammo_boxes, player_ammo, playerVars, bullets,
                   ammo_box_spawn_timer, firing, recoil_t, running, dt, events,
                   keys, tick, calls, true_returns>>

\* wave_manager.spawn_enemies(enemies)
SpawnEnemies ==
    /\ pc = "spawn"
    /\ \E pos \in [1..enemies_to_spawn(wave_manager) -> find_random_valid_position] :
           LET r == spawn_enemies(wave_manager, enemies, pos)
           IN  /\ wave_manager' = r.self
               /\ enemies' = r.enemies
    /\ pc' = "bullets"
    /\ hist' = [op |-> "spawn", wm |-> wave_manager, n |-> Len(enemies),
                alive |-> AliveCount(enemies), ammo |-> player_ammo]
    /\ UNCHANGED <<rayVars, ammo_boxes, player_ammo, playerVars, bullets,
                   ammo_box_spawn_timer, firing, recoil_t, running, dt, events,
                   keys, tick, wave_base, calls, true_returns>>

\* The bullet loop and "bullets = [b for b in bullets if b.alive]".
UpdateBullets ==
    /\ pc = "bullets"
    /\ LET r == BulletLoop(bullets, enemies, 1, dt)
       IN  /\ bullets' = AliveOnly(r.bullets)
           /\ enemies' = r.enemies
    /\ pc' = "enemies"
    /\ hist' = [op |-> "bullets", ammo |-> player_ammo, n |-> Len(bullets),
                log |-> BulletLoop(bullets, enemies, 1, dt).log]
    /\ UNCHANGED <<rayVars, wave_manager, ammo_boxes, player_ammo, playerVars,
                   ammo_box_spawn_timer, firing, recoil_t, running, dt, events,
                   keys, tick, wave_base, calls, true_returns>>

\* "for e in enemies: e.update(dt)"
UpdateEnemies ==
    /\ pc = "enemies"
    /\ enemies' = [i \in 1..Len(enemies) |->
                      Enemy_update(enemies[i], player_x, player_y, dt)]
    /\ pc' = "boxes"
    /\ hist' = [op |-> "enemies", ammo |-> player_ammo]
    /\ UNCHANGED <<rayVars, wave_manager, ammo_boxes, player_ammo, playerVars, bullets,
                   ammo_box_spawn_timer, firing, recoil_t, running, dt, events,
                   keys, tick, wave_base, calls, true_returns>>

\* A mutant of the ammo box phase: "and len(ammo_boxes) < 3" is missing.
UpdateAmmoBoxes_unlimited ==
    /\ pc = "boxes"
    /\ LET r == BoxLoop(ammo_boxes, 1, player_x, player_y, player_ammo)
           left == AliveOnly(r.ammo_boxes)
           timer == ammo_box_spawn_timer + dt
       IN  /\ player_ammo' = r.player_ammo
           /\ IF timer >= 20000
              THEN /\ \E p \in find_random_valid_position :
                          ammo_boxes' = Append(left, AmmoBox(p[1], p[2]))
                   /\ ammo_box_spawn_timer' = 0
              ELSE /\ ammo_boxes' = left
                   /\ ammo_box_spawn_timer' = timer
    /\ pc' = "render"
    /\ hist' = [op |-> "boxes", ammo |-> player_ammo, boxes |-> ammo_boxes]
    /\ UNCHANGED <<rayVars, wave_manager, enemies, playerVars, bullets, firing, recoil_t,
                   running, dt, events, keys, tick, wave_base, calls,
                   true_returns>>

\* The ammo box loop, the clean-up of picked up boxes, and the spawn timer:
\* a new box after ammo_box_spawn_interval = 20.0 s if fewer than 3 are left.
UpdateAmmoBoxes ==
    /\ pc = "boxes"
    /\ LET r == BoxLoop(ammo_boxes, 1, player_x, player_y, player_ammo)
           left == AliveOnly(r.ammo_boxes)
           timer == ammo_box_spawn_timer + dt
       IN  /\ player_ammo' = r.player_ammo
           /\ IF timer >= 20000 /\ Len(left) < 3
              THEN /\ \E p \in find_random_valid_position :
                          ammo_boxes' = Append(left, AmmoBox(p[1], p[2]))
                   /\ ammo_box_spawn_timer' = 0
              ELSE /\ ammo_boxes' = left
                   /\ ammo_box_spawn_timer' = timer
    /\ pc' = "render"
    /\ hist' = [op |-> "boxes", ammo |-> player_ammo, boxes |-> ammo_boxes]
    /\ UNCHANGED <<rayVars, wave_manager, enemies, playerVars, bullets, firing, recoil_t,
                   running, dt, events, keys, tick, wave_base, calls,
                   true_returns>>

\* The render part of the tick: the batches are built from the state and
\* handed to the renderer; of main's state only the weapon recoil changes
\* (firing ends once recoil_t > 0.15 s).
Render ==
    /\ pc = "render"
    /\ recoil_t' = IF firing THEN recoil_t + dt ELSE recoil_t
    /\ firing' = (firing /\ ~(recoil_t + dt > 150))
    /\ tick' = tick + 1
    /\ pc' = "tick"
    /\ hist' = [op |-> "render", ammo |-> player_ammo]
    /\ UNCHANGED <<rayVars, wave_manager, enemies, ammo_boxes, player_ammo, playerVars,
                   bullets, ammo_box_spawn_timer, running, dt, events, keys,
                   wave_base, calls, true_returns>>

\* "while running:" fails: pygame.quit().
Quit ==
    /\ pc = "tick"
    /\ ~running
    /\ pc' = "done"
    /\ hist' = [op |-> "quit", ammo |-> player_ammo]
    /\ UNCHANGED <<rayVars, wave_manager, enemies, ammo_boxes, player_ammo, playerVars,
                   bullets, ammo_box_spawn_timer, firing, recoil_t, running, dt,
                   events, keys, tick, wave_base, calls, true_returns>>

Next ==
    \/ BeginTick
    \/ HandleEvent
    \/ HandleInput
    \/ WaveUpdate
    \/ SpawnEnemies
    \/ UpdateBullets
    \/ UpdateEnemies
    \/ UpdateAmmoBoxes
    \/ Render
    \/ Quit

Spec == Init /\ [][Next]_vars

-----------------------------------------------------------------------------
(* SpecBoxes: the ammo box phase of main's tick over several ticks, the    *)
(* player standing at the start or on a point where boxes appear.          *)

\* The ammo box phase is explored up to this number of ticks.
MaxBoxTicks == 4

\* The frame times (ms) of these ticks: the spawn interval, and half of it.
BoxDtSet == {10000, 20000}

InitBoxes ==
    /\ InitCamera
    /\ InitLocals
    /\ player_ammo = StartAmmo
    /\ wave_manager = WaveManager
    /\ enemies = <<>>
    /\ wave_base = 0
    /\ \E q \in {<<PlayerStartX, PlayerStartY>>} \cup find_random_valid_position :
           /\ player_x = q[1]
           /\ player_y = q[2]
    /\ \E p \in find_random_valid_position :
           ammo_boxes = << AmmoBox(p[1], p[2]) >>
    /\ hist = [op |-> "init"]

\* The tick up to the ammo box phase: dt = clock.tick(FPS) / 1000.0.
BoxFrame(d) ==
    /\ pc = "tick"
    /\ tick < MaxBoxTicks
    /\ dt' = d
    /\ pc' = "boxes"
    /\ hist' = [op |-> "frame"]
    /\ UNCHANGED <<rayVars, wave_manager, enemies, ammo_boxes, player_ammo,
                   playerVars, bullets, ammo_box_spawn_timer, firing, recoil_t,
                   running, events, keys, tick, wave_base, calls, true_returns>>

NextBoxes == (\E d \in BoxDtSet : BoxFrame(d)) \/ UpdateAmmoBoxes \/ Render

SpecBoxes == InitBoxes /\ [][NextBoxes]_vars

-----------------------------------------------------------------------------
(* Properties of the wave director (checked under SpecWave) *)

\* C1: from a fresh WaveManager (wave 0, neither in progress nor between
\* waves), the first update, for any dt and with no alive enemy, leaves
\* current_wave = 1, wave_in_progress set, between_waves clear,
\* enemies_spawned = 0 and a target of 3 enemies.
C1_FirstUpdateStartsWaveOne ==
    ( /\ hist.op = "update"
      /\ hist.wm.current_wave = 0
      /\ ~hist.wm.wave_in_progress
      /\ ~hist.wm.between_waves
      /\ AliveCount(enemies) = 0 )
    => /\ wave_manager.current_wave = 1
       /\ wave_manager.wave_in_progress
       /\ ~wave_manager.between_waves
       /\ wave_manager.enemies_spawned = 0
       /\ get_enemies_for_wave(wave_manager) = 3

C1_Witness ==
    /\ hist.op = "update"
    /\ hist.wm = WaveManager
    /\ wave_manager.current_wave = 1

\* C2: an update made while a wave is in progress moves to Countdown
\* (between_waves set, wave_in_progress clear, wave_countdown = 5.0 s) exactly
\* when enemies_spawned > 0 and no enemy is alive; any other update made while
\* Active stays Active and leaves wave_countdown as it was.
C2_ActiveToCountdown ==
    (hist.op = "update" /\ hist.wm.wave_in_progress)
    => IF hist.wm.enemies_spawned > 0 /\ AliveCount(enemies) = 0
       THEN /\ wave_manager.between_waves
            /\ ~wave_manager.wave_in_progress
            /\ wave_manager.wave_countdown = 5000
            /\ wave_manager.countdown_duration = 5000
       ELSE /\ wave_manager.wave_in_progress
            /\ ~wave_manager.between_waves
            /\ wave_manager.wave_countdown = hist.wm.wave_countdown

C2_Witness ==
    /\ hist.op = "update"
    /\ hist.wm.wave_in_progress
    /\ hist.wm.enemies_spawned > 0
    /\ wave_manager.between_waves

\* C3: an update made in Countdown subtracts dt from wave_countdown; if the
\* result is <= 0 the state becomes Active, current_wave grows by exactly 1,
\* enemies_spawned is 0 and Countdown is not re-entered by that update;
\* otherwise the state stays Countdown and current_wave is unchanged.
C3_CountdownToActive ==
    (hist.op = "update" /\ hist.wm.between_waves)
    => /\ wave_manager.wave_countdown = hist.wm.wave_countdown - hist.dt
       /\ IF hist.wm.wave_countdown - hist.dt <= 0
          THEN /\ wave_manager.wave_in_progress
               /\ ~wave_manager.between_waves
               /\ wave_manager.current_wave = hist.wm.current_wave + 1
               /\ wave_manager.enemies_spawned = 0
          ELSE /\ wave_manager.between_waves
               /\ ~wave_manager.wave_in_progress
               /\ wave_manager.current_wave = hist.wm.current_wave

C3_Witness ==
    /\ hist.op = "update"
    /\ hist.wm.between_waves
    /\ hist.wm.wave_countdown > 0
    /\ wave_manager.wave_countdown < 0
    /\ wave_manager.wave_in_progress

\* C4: no step (update, spawn_enemies, an enemy's death) decreases or resets
\* current_wave; a step leaves it unchanged or adds exactly 1.
C4_WaveNumberMonotone ==
    [][ \/ wave_manager'.current_wave = wave_manager.current_wave
        \/ wave_manager'.current_wave = wave_manager.current_wave + 1 ]_vars

C4_Witness ==
    /\ hist.op = "update"
    /\ hist.wm.current_wave >= 2
    /\ wave_manager.current_wave = hist.wm.current_wave + 1

\* C5: the enemies created between the start of wave w and the start of wave
\* w+1 number exactly 3 + (w-1)*2 (never more while the wave lasts); each is
\* created alive with health 1 + floor((w-1)/3) and speed multiplier
\* 1 + min(1, (w-1)*0.1); count and health are non-decreasing in w.
C5_WaveTuning ==
    LET w == wave_manager.current_wave
        at(v) == [wave_manager EXCEPT !.current_wave = v]
    IN  /\ w >= 1 => Len(enemies) - wave_base <= 3 + (w - 1) * 2
        /\ ( /\ hist.op = "update"
             /\ hist.wm.current_wave >= 1
             /\ w = hist.wm.current_wave + 1 )
           => hist.created = 3 + (hist.wm.current_wave - 1) * 2
        /\ hist.op = "spawn"
           => \A i \in (hist.n + 1)..Len(enemies) :
                  /\ enemies[i].alive
                  /\ enemies[i].health = 1 + (w - 1) \div 3
                  /\ enemies[i].speed * 10 =
                         enemies[i].base_speed * (10 + Min(10, w - 1))
        /\ \A v \in 1..(w - 1) :
               /\ get_enemies_for_wave(at(v)) <= get_enemies_for_wave(at(v + 1))
               /\ get_enemy_health(at(v)) <= get_enemy_health(at(v + 1))

C5_Witness ==
    /\ hist.op = "spawn"
    /\ wave_manager.current_wave >= 12
    /\ Len(enemies) - hist.n = 25
    /\ enemies[Len(enemies)].health = 4
    /\ enemies[Len(enemies)].speed = 2800

\* C6 as stated: after every spawn_enemies call made while a wave is in
\* progress the number of alive enemies equals the wave's target (a killed
\* enemy is replaced).
C6_AliveRosterToppedUp ==
    (hist.op = "spawn" /\ hist.wm.wave_in_progress)
    => AliveCount(enemies) = get_enemies_for_wave(wave_manager)

\* C6 as amended: after every spawn_enemies call made while a wave is in
\* progress, enemies_spawned (the enemies created in this wave) equals the
\* wave's target and the alive enemies number at most the target; they equal
\* the target after the first call of the wave, and a later call adds nothing
\* (a killed enemy is not replaced).
C6_SpawnedToppedUp ==
    (hist.op = "spawn" /\ hist.wm.wave_in_progress)
    => LET target == get_enemies_for_wave(wave_manager)
       IN  /\ wave_manager.enemies_spawned = target
           /\ Len(enemies) - wave_base = target
           /\ AliveCount(enemies) <= target
           /\ hist.wm.enemies_spawned = 0 => AliveCount(enemies) = target
           /\ hist.wm.enemies_spawned > 0 =>
                  /\ Len(enemies) = hist.n
                  /\ AliveCount(enemies) = hist.alive

C6_Witness ==
    /\ hist.op = "spawn"
    /\ hist.wm.wave_in_progress
    /\ hist.wm.enemies_spawned > 0
    /\ AliveCount(enemies) > 0
    /\ AliveCount(enemies) < get_enemies_for_wave(wave_manager)

-----------------------------------------------------------------------------
(* Properties of Enemy.take_damage (checked under SpecEnemy) *)

\* C7: on an alive enemy of health h >= 1, take_damage(h) returns true and
\* leaves the enemy not alive; take_damage(a) with 0 < a < h returns false,
\* leaves it alive and leaves health = h - a.
C7_TakeDamage ==
    (hist.op = "take_damage" /\ hist.e.alive /\ hist.e.health >= 1)
    => /\ hist.amount = hist.e.health
          => hist.ret /\ ~enemies[1].alive
       /\ (0 < hist.amount /\ hist.amount < hist.e.health)
          => /\ ~hist.ret
             /\ enemies[1].alive
             /\ enemies[1].health = hist.e.health - hist.amount

C7_Witness ==
    /\ hist.op = "take_damage"
    /\ hist.e.alive
    /\ hist.e.health >= 1
    /\ hist.e.health < MaxHealth
    /\ hist.amount = hist.e.health
    /\ hist.ret
    /\ ~enemies[1].alive

\* C8: over any sequence of take_damage calls with positive amounts on one
\* enemy exactly one call returns true, the first that brings health to <= 0;
\* a call on the already dead enemy returns false.
C8_TrueReturnedOnce ==
    /\ true_returns <= 1
    /\ ~enemies[1].alive => true_returns = 1
    /\ (hist.op = "take_damage" /\ ~hist.e.alive) => ~hist.ret

-----------------------------------------------------------------------------
(* Properties of AmmoBox.update (checked under SpecAmmoBox) *)

\* C9: update on an alive box picks it up iff the distance to the player is
\* <= 0.8 (boundary included): the box becomes not alive and the ammo count
\* 20 whatever it was; farther away, or on a box that is not alive, the ammo
\* count and the alive flag are unchanged.
C9_PickupBoundaryInclusive ==
    hist.op = "box_update"
    => LET b == hist.box
           d2 == (player_x - b.x) * (player_x - b.x)
                   + (player_y - b.y) * (player_y - b.y)
       IN  IF b.alive /\ d2 <= 800 * 800
           THEN /\ ~ammo_boxes[1].alive
                /\ player_ammo = 20
           ELSE /\ ammo_boxes[1].alive = b.alive
                /\ player_ammo = hist.ammo

C9_Witness ==
    /\ hist.op = "box_update"
    /\ hist.box.alive
    /\ (player_x - hist.box.x) * (player_x - hist.box.x)
         + (player_y - hist.box.y) * (player_y - hist.box.y) = 800 * 800
    /\ player_x # hist.box.x
    /\ player_y # hist.box.y
    /\ hist.ammo = 0
    /\ player_ammo = 20
    /\ ~ammo_boxes[1].alive

-----------------------------------------------------------------------------
(* Properties of the player's ammo in the game loop (checked under Spec) *)

\* C10: in every state of the game loop the ammo count is an integer in
\* [0, 20]; a fire event (SPACE or left mouse button) with ammo > 0 appends
\* exactly one bullet and takes exactly 1 from the count, a fire event with
\* ammo = 0 appends no bullet and leaves the count at 0, for any number of
\* fire events in one tick; a pickup sets the count to 20; nothing else
\* changes it.
C10_AmmoInRange ==
    /\ player_ammo \in 0..20
    /\ hist.op = "event"
       => IF hist.ev \in {"K_SPACE", "MOUSE1"}
          THEN IF hist.ammo > 0
               THEN /\ player_ammo = hist.ammo - 1
                    /\ Len(bullets) = hist.nb + 1
               ELSE /\ player_ammo = 0
                    /\ Len(bullets) = hist.nb
          ELSE /\ player_ammo = hist.ammo
               /\ Len(bullets) = hist.nb
    /\ hist.op = "boxes"
       => LET picked == \E i \in 1..Len(hist.boxes) :
                           /\ hist.boxes[i].alive
                           /\ Abs(player_x - hist.boxes[i].x) <= 800
                           /\ Abs(player_y - hist.boxes[i].y) <= 800
                           /\ (player_x - hist.boxes[i].x) * (player_x - hist.boxes[i].x)
                                + (player_y - hist.boxes[i].y) * (player_y - hist.boxes[i].y)
                                <= 800 * 800
          IN  IF picked THEN player_ammo = 20 ELSE player_ammo = hist.ammo
    /\ hist.op \notin {"event", "boxes"} => player_ammo = hist.ammo

C10_Witness ==
    /\ hist.op = "boxes"
    /\ hist.ammo = 0
    /\ player_ammo = 20
    /\ Len(bullets) > 0

-----------------------------------------------------------------------------
(* Properties of Bullet.update (checked under SpecBullet) *)

\* C11: Bullet.update(dt) on an alive bullet: if the cell of the destination
\* (x + vx*dt, y + vy*dt) is a wall the bullet becomes not alive and its
\* position, age and height parameter are unchanged; otherwise the position
\* is the destination, the bullet stays alive and the height parameter does
\* not shrink and never exceeds 0.65.  Update on a bullet that is not alive
\* changes nothing.
C11_BulletUpdate ==
    hist.op = "bullet_update"
    => LET b0 == hist.b
           b1 == bullets[1]
           nx == b0.x + Div(b0.vx * hist.dt, 1000)
           ny == b0.y + Div(b0.vy * hist.dt, 1000)
       IN  /\ (b0.alive /\ is_wall(int(nx), int(ny)))
              => b1 = [b0 EXCEPT !.alive = FALSE]
           /\ (b0.alive /\ ~is_wall(int(nx), int(ny)))
              => /\ b1.alive
                 /\ b1.x = nx /\ b1.y = ny
                 /\ b1.vx = b0.vx /\ b1.vy = b0.vy
                 /\ b1.height_param >= b0.height_param
                 /\ b1.height_param <= 650
                 /\ (b0.height_param < 650 => b1.height_param > b0.height_param)
           /\ ~b0.alive => b1 = b0

\* A bullet two cells west of a wall cell, velocity (10, 0), dt = 0.2: dead
\* after the one step and still where it was.
C11_Witness ==
    /\ hist.op = "bullet_update"
    /\ hist.dt = 200
    /\ hist.b.alive
    /\ hist.b.x = 9500 /\ hist.b.y = 2500 /\ hist.b.vx = 10000
    /\ is_wall(11, 2)
    /\ ~bullets[1].alive
    /\ bullets[1].x = 9500 /\ bullets[1].y = 2500
    /\ bullets[1].age = 0

-----------------------------------------------------------------------------
(* Properties of the combat pass (checked under SpecCombat) *)

\* C12: in one pass of the bullet loop each alive bullet damages at most one
\* enemy: a bullet that is alive after its update and has an alive enemy in
\* range is consumed and deals exactly 1 damage, to the first such enemy in
\* list order; an enemy that was not alive is not damaged; a bullet stopped by
\* a wall damages nobody; the bullets left in the list are alive; and over
\* its lifetime a bullet deals at most 1 damage.
C12_OneHitPerBullet ==
    hist.op = "combat"
    => LET bs0 == hist.bullets
           es0 == hist.enemies
           n == Len(es0)
           upd == [i \in 1..Len(bs0) |-> Bullet_update(bs0[i], hist.dt)]
           flying == { i \in 1..Len(bs0) : upd[i].alive }
           hit1 == { j \in 1..n :
                       /\ es0[j].alive
                       /\ Abs(es0[j].x - upd[1].x) <= es0[j].radius
                       /\ Abs(es0[j].y - upd[1].y) <= es0[j].radius
                       /\ (es0[j].x - upd[1].x) * (es0[j].x - upd[1].x)
                            + (es0[j].y - upd[1].y) * (es0[j].y - upd[1].y)
                          <= es0[j].radius * es0[j].radius }
           damaged == { j \in 1..n : enemies[j].health # es0[j].health }
       IN  /\ Len(enemies) = n
           /\ \A j \in 1..n : /\ enemies[j].health <= es0[j].health
                              /\ enemies[j].x = es0[j].x
                              /\ enemies[j].y = es0[j].y
           /\ \A j \in damaged : es0[j].alive
           /\ TotalHealth(es0, n) - TotalHealth(enemies, n)
                = Cardinality(flying) - Len(bullets)
           /\ Cardinality(damaged) <= Len(bs0)
           /\ \A i \in 1..Len(bullets) : bullets[i].alive
           /\ flying = {} => enemies = es0
           /\ (Len(bs0) = 1 /\ 1 \in flying /\ hit1 = {})
              => enemies = es0 /\ bullets = << upd[1] >>
           /\ (Len(bs0) = 1 /\ 1 \in flying /\ hit1 # {})
              => /\ bullets = <<>>
                 /\ \E j \in hit1 :
                        /\ \A k \in hit1 : j <= k
                        /\ damaged = {j}
                        /\ enemies[j].health = es0[j].health - 1
           /\ hist.dealt + Len(bullets) <= hist.fired

\* One bullet arrives where two alive enemies stand, after an enemy that is
\* not alive: the first alive one is hit, the second is not.
C12_Witness ==
    /\ hist.op = "combat"
    /\ Len(hist.bullets) = 1
    /\ Len(hist.enemies) = 3
    /\ ~hist.enemies[1].alive
    /\ hist.enemies[2].alive /\ hist.enemies[3].alive
    /\ hist.enemies[2].x = 7000 /\ hist.enemies[3].x = 7000
    /\ enemies[1] = hist.enemies[1]
    /\ enemies[2].health = hist.enemies[2].health - 1
    /\ enemies[3] = hist.enemies[3]
    /\ bullets = <<>>

-----------------------------------------------------------------------------
(* Properties of the raycaster (checked under SpecRay) *)

\* C13: on a map with an opaque border and a camera in an empty interior
\* cell, the DDA loop of every column ends after at most MAP_W + MAP_H cell
\* steps, inside the map, with a material id > 0 (the id of the cell it
\* stopped in); on any map, a ray that leaves the bounds ends the loop with
\* material id 1, and while the loop runs the ray is in an empty cell of the
\* map.
C13_DdaTerminates ==
    ray.phase \in {"loop", "done"}
    => LET inside == in_grid(grid, ray.map_x, ray.map_y)
       IN  /\ ray.steps <= Len(grid) + Len(grid[1])
           /\ ray.hit = 0 => inside /\ grid[ray.map_y + 1][ray.map_x + 1] = 0
           /\ ray.hit # 0
              => /\ ray.steps >= 1
                 /\ ray.tex_id > 0
                 /\ inside => ray.tex_id = grid[ray.map_y + 1][ray.map_x + 1]
                 /\ ~inside => ray.tex_id = 1
                 /\ OpaqueBorder(grid) => inside

\* A column of the game's MAP whose ray crosses several cells before it
\* stops at a wall of material other than 1.
C13_Witness ==
    /\ ray.phase = "done"
    /\ grid = MAP
    /\ OpaqueBorder(grid)
    /\ ray.steps >= 5
    /\ ray.tex_id > 1
    /\ ray.tex_id = grid[ray.map_y + 1][ray.map_x + 1]

\* C14 (as stated): on the 5x5 grid with border walls and an empty interior,
\* camera at (2.5, 2.5) facing +x, the centre column reports the east wall at
\* perpendicular distance 2.0 with the border's material id.
C14_EastWallAtTwo ==
    ( /\ ray.phase = "done"
      /\ ray.x = WIDTH \div 2
      /\ grid = Room5
      /\ player_x = 2500 /\ player_y = 2500
      /\ dir_x = 1000 /\ dir_y = 0 )
    => /\ ray.perp_wall_dist = 2000
       /\ ray.tex_id = Room5[3][5]

\* C14 (amended): in that scene the centre column stops in the east border
\* cell (4,2) on an x face, reports the border's material id, and the
\* perpendicular distance is 1.5: the distance from x = 2.5 to the face of
\* the wall at x = 4.
C14_EastWallAtOnePointFive ==
    ( /\ ray.phase = "done"
      /\ ray.x = WIDTH \div 2
      /\ grid = Room5
      /\ player_x = 2500 /\ player_y = 2500
      /\ dir_x = 1000 /\ dir_y = 0 )
    => /\ ray.perp_wall_dist = 1500
       /\ ray.tex_id = Room5[3][5]
       /\ ray.map_x = 4 /\ ray.map_y = 2
       /\ ray.side = 0
       /\ ray.steps = 2

C14_Witness ==
    /\ ray.phase = "done"
    /\ ray.x = WIDTH \div 2
    /\ ray.ray_dir_x = 1000 /\ ray.ray_dir_y = 0
    /\ grid = Room5
    /\ player_x = 2500 /\ player_y = 2500
    /\ dir_x = 1000 /\ dir_y = 0
    /\ ray.perp_wall_dist = 1500
    /\ ray.tex_id = 2

\* C15: the texture coordinate u of every column lies in [0, 1), never 1.0,
\* also after the flip and when the hit point is on a grid line; and the side
\* flag is 0 when the last DDA step was along x and 1 when it was along y.
C15_TexUHalfOpen ==
    /\ ray.phase = "done" => 0 <= ray.u /\ ray.u < 1000
    /\ hist.op = "dda"
       => /\ ray.side = 0 <=> ray.map_x # hist.map_x
          /\ ray.side = 1 <=> ray.map_y # hist.map_y

\* C16: the depth of a wall column and the depth of a billboard lie in
\* [0, 1]; a billboard at a distance along the view direction not smaller
\* than the wall's has a depth not smaller than the wall's, one at a distance
\* not greater has a depth not greater, so at the same distance the two
\* depths are equal.
C16_DepthMonotone ==
    /\ ray.phase = "done" => 0 <= ray.depth /\ ray.depth <= 1000
    /\ (ray.phase = "done" /\ hist.op = "sprite" /\ hist.visible)
       => /\ 0 <= hist.depth /\ hist.depth <= 1000
          /\ hist.trans_y >= ray.perp_wall_dist => hist.depth >= ray.depth
          /\ hist.trans_y <= ray.perp_wall_dist => hist.depth <= ray.depth

\* A billboard exactly as far as the wall of the column, with the same depth,
\* not clamped.
C16_Witness ==
    /\ ray.phase = "done"
    /\ hist.op = "sprite"
    /\ hist.visible
    /\ hist.trans_y = ray.perp_wall_dist
    /\ hist.depth = ray.depth
    /\ 0 < hist.depth /\ hist.depth < 1000

-----------------------------------------------------------------------------
(* Properties of the tick (checked under Spec) *)

\* C17 (as stated): the phases of a tick run in the order input events and
\* camera move, wave update, enemy spawn, bullet step, combat resolution,
\* enemy step, pickup step, cleanup, batch build, and no phase runs before
\* the phase listed before it has finished for all entities: in the bullet
\* loop every bullet has been stepped before any combat scan is made.
C17_PhasesFinishForAllEntities ==
    /\ pc = "wave" => hist.op = "input"
    /\ pc = "spawn" => hist.op = "update"
    /\ pc = "bullets" => hist.op = "spawn"
    /\ pc = "enemies" => hist.op = "bullets"
    /\ pc = "boxes" => hist.op = "enemies"
    /\ pc = "render" => hist.op = "boxes"
    /\ hist.op = "bullets"
       => \A j, k \in 1..Len(hist.log) :
              (hist.log[j][1] = "combat" /\ hist.log[k][1] = "step") => k < j

\* C17 (amended): each phase of a tick directly follows the phase before it
\* in the order input events, camera move (handle_input), wave update, enemy
\* spawn, bullet loop and removal of the bullets that are not alive, enemy
\* step, pickup step with removal of the boxes that are not alive, batch
\* build; and in the bullet loop the bullets are taken in list order, each
\* one stepped and, if still alive, its combat scan made before the next
\* bullet is stepped.
C17_PhaseOrder ==
    /\ pc = "events" => hist.op \in {"tick", "event"}
    /\ hist.op = "event" => pc = "events"
    /\ pc = "wave" => hist.op = "input"
    /\ pc = "spawn" => hist.op = "update"
    /\ pc = "bullets" => hist.op = "spawn"
    /\ pc = "enemies" => hist.op = "bullets"
    /\ pc = "boxes" => hist.op = "enemies"
    /\ pc = "render" => hist.op = "boxes"
    /\ pc = "tick" => hist.op \in {"init", "render"}
    /\ pc = "done" => hist.op = "quit"
    /\ hist.op = "bullets"
       => /\ Cardinality({k \in 1..Len(hist.log) : hist.log[k][1] = "step"})
               = hist.n
          /\ \A k \in 1..Len(hist.log) :
                 /\ hist.log[k][1] = "step"
                    => hist.log[k][2]
                         = IF k = 1 THEN 1 ELSE hist.log[k - 1][2] + 1
                 /\ hist.log[k][1] = "combat"
                    => k > 1 /\ hist.log[k - 1] = <<"step", hist.log[k][2]>>
          /\ \A i \in 1..Len(bullets) : bullets[i].alive

\* Two bullets in the loop: the combat scan of the first is made before the
\* second is stepped.
C17_Witness ==
    /\ hist.op = "bullets"
    /\ pc = "enemies"
    /\ hist.n >= 2
    /\ hist.log[1] = <<"step", 1>>
    /\ hist.log[2] = <<"combat", 1>>
    /\ hist.log[3] = <<"step", 2>>

\* C18: within a tick the camera (player_x, player_y, dir_x, dir_y, plane_x,
\* plane_y) is modified only by handle_input: every other step of the tick
\* (events, wave update, spawn, bullet, enemy and pickup steps, batch build)
\* leaves the six values unchanged; and handle_input replaces dir and plane
\* together: the one has changed iff the other has.
C18_CameraOnlyByHandleInput ==
    [][ /\ hist'.op # "input" => UNCHANGED playerVars
        /\ hist'.op = "input"
           => ( <<dir_x', dir_y'>> # <<dir_x, dir_y>>
                <=> <<plane_x', plane_y'>> # <<plane_x, plane_y>> ) ]_vars

\* The end of a tick in which handle_input has rotated and moved the camera.
C18_Witness ==
    /\ hist.op = "render"
    /\ tick = 1
    /\ dir_x # 1000
    /\ plane_x # 0
    /\ player_x # PlayerStartX
    /\ player_y # PlayerStartY

\* C19: at the start of every tick none of the three entity collections
\* (bullets, enemies, ammo boxes) contains an entity that is not alive.
C19_NoDeadEntitiesAtTickStart ==
    pc = "tick"
    => /\ \A i \in 1..Len(bullets) : bullets[i].alive
       /\ \A i \in 1..Len(enemies) : enemies[i].alive
       /\ \A i \in 1..Len(ammo_boxes) : ammo_boxes[i].alive

-----------------------------------------------------------------------------
(* Properties of Enemy.update (checked under SpecChase) *)

\* C20 (as stated): the X delta is applied iff the cell (int(nx), int(y_old))
\* is not a wall and the Y delta iff the cell (int(x_old), int(ny)) is not a
\* wall, x_old and y_old being the coordinates before the step; and the enemy
\* moves only when its distance to the player exceeds 0.75.
C20_IndependentAxisTests ==
    (hist.op = "enemy_update" /\ hist.e.alive)
    => LET e0 == hist.e
           e1 == enemies[1]
           far == Hypot2(player_x - e0.x, player_y - e0.y) > 750 * 750
           t == Enemy_target(e0, player_x, player_y, hist.dt)
       IN  /\ ~far => e1 = e0
           /\ far => /\ e1.x = IF ~is_wall(int(t[1]), int(e0.y))
                               THEN t[1] ELSE e0.x
                     /\ e1.y = IF ~is_wall(int(e0.x), int(t[2]))
                               THEN t[2] ELSE e0.y

\* C20 (amended): the X delta is applied iff the cell (int(nx), int(y_old))
\* is not a wall; the Y delta is applied iff the cell (int(x_cur), int(ny))
\* is not a wall, x_cur being the x the X test left (nx if the X delta was
\* applied, x_old otherwise); the enemy moves only when its distance to the
\* player is at least 0.75; an enemy that is not alive does not move.
C20_SequentialAxisTests ==
    hist.op = "enemy_update"
    => LET e0 == hist.e
           e1 == enemies[1]
           far == Hypot2(player_x - e0.x, player_y - e0.y) >= 750 * 750
           t == Enemy_target(e0, player_x, player_y, hist.dt)
       IN  /\ (~e0.alive \/ ~far) => e1 = e0
           /\ (e0.alive /\ far)
              => /\ e1.x = IF ~is_wall(int(t[1]), int(e0.y)) THEN t[1] ELSE e0.x
                 /\ e1.y = IF ~is_wall(int(e1.x), int(t[2])) THEN t[2] ELSE e0.y
                 /\ e1 = [e0 EXCEPT !.x = e1.x, !.y = e1.y]

\* The X delta takes the enemy from cell (2,9) to cell (3,9), and the Y delta
\* is applied although the cell (2,8) above the old position is a wall.
C20_Witness ==
    /\ hist.op = "enemy_update"
    /\ hist.e.alive
    /\ int(hist.e.x) = 2 /\ int(hist.e.y) = 9
    /\ is_wall(2, 8)
    /\ int(enemies[1].x) = 3 /\ int(enemies[1].y) = 8

-----------------------------------------------------------------------------
(* C21: a malformed grid map (rows of unequal length, or a negative cell   *)
(* value) is rejected at load time with a failure, before any raycasting   *)
(* uses it: loading it raises, and no column is ever cast on it.           *)
(* The module has no such check: it is violated.                           *)
C21_MalformedMapRejected ==
    LET malformed ==
            \/ \E r \in 1..Len(grid) : Len(grid[r]) # Len(grid[1])
            \/ \E r \in 1..Len(grid) : \E c \in 1..Len(grid[r]) : grid[r][c] < 0
    IN  malformed =>
            /\ hist.op = "load" => hist.raised
            /\ ray.phase = "idle"

-----------------------------------------------------------------------------
(* C22: whatever rotations handle_input has applied, the basis determinant *)
(* dir_x * plane_y - dir_y * plane_x has the magnitude it started with     *)
(* (1.0 * PLANE_LEN) and dir and plane are perpendicular (their dot        *)
(* product is 0).  Both are stated up to the rounding of the fixed-point   *)
(* arithmetic: each call rounds the four components to 1/1000, which moves *)
(* either product by less than 2 * (1.0 + PLANE_LEN) thousandths.          *)
C22_RotationKeepsBasis ==
    LET det == dir_x * plane_y - dir_y * plane_x
        dot == dir_x * plane_x + dir_y * plane_y
        tol == 2 * (1000 + PLANE_LEN) * calls
    IN  /\ Abs(Abs(det) - 1000 * PLANE_LEN) <= tol
        /\ Abs(dot) <= tol

\* Three calls have rotated the camera, by different angles, and it does not
\* face along an axis.
C22_Witness ==
    /\ calls >= 3
    /\ hist.op = "handle_input"
    /\ hist.keys \cap {"K_LEFT", "K_q", "K_RIGHT", "K_e"} # {}
    /\ hist.dir_x # dir_x
    /\ hist.dir_x # 1000
    /\ dir_x # 0 /\ dir_y # 0
    /\ plane_x # 0 /\ plane_y # 0

-----------------------------------------------------------------------------
(* C23: Bullet.update kills an alive bullet whenever the straight segment  *)
(* from its position to its destination passes through a wall cell (here:  *)
(* one of 64 evenly spaced points of the segment, its end included, lies   *)
(* in a wall cell), so that an alive bullet never crosses a wall.          *)
(* Bullet.update tests the cell of the destination only: it is violated.   *)
C23_NoTunnelling ==
    hist.op = "bullet_update" /\ hist.b.alive
    => LET b0 == hist.b
           ex == Div(b0.vx * hist.dt, 1000)
           ey == Div(b0.vy * hist.dt, 1000)
           crosses == \E k \in 1..64 :
                          is_wall(int(b0.x + Div(ex * k, 64)),
                                  int(b0.y + Div(ey * k, 64)))
       IN  crosses => ~bullets[1].alive

-----------------------------------------------------------------------------
(* C24: wave_in_progress and between_waves are never both true; a state    *)
(* with neither is the fresh WaveManager, before the first update; and     *)
(* after every update exactly one of the two is true.                      *)
C24_ExactlyOneWaveFlag ==
    LET active == wave_manager.wave_in_progress
        countdown == wave_manager.between_waves
    IN  /\ ~(active /\ countdown)
        /\ (active \/ countdown) \/ wave_manager = WaveManager
        /\ hist.op = "update" => (active \/ countdown)

\* An update has ended a countdown: wave 2 or later is in progress, after
\* enemies were spawned and killed.
C24_Witness ==
    /\ hist.op = "update"
    /\ hist.wm.between_waves
    /\ wave_manager.wave_in_progress
    /\ wave_manager.current_wave >= 2
    /\ Len(enemies) > 0

-----------------------------------------------------------------------------
(* C25: while between_waves is set no enemy is alive, and a spawn_enemies  *)
(* call made then adds no enemy; in every state the number of alive        *)
(* enemies is at most the target of the current wave,                      *)
(* 3 + (current_wave - 1) * 2, and so is enemies_spawned.                  *)
C25_CountdownHasNoEnemies ==
    LET target == 3 + (wave_manager.current_wave - 1) * 2
    IN  /\ wave_manager.between_waves => AliveCount(enemies) = 0
        /\ (hist.op = "spawn" /\ hist.wm.between_waves)
           => /\ Len(enemies) = hist.n
              /\ wave_manager = hist.wm
        /\ AliveCount(enemies) <= target
        /\ wave_manager.enemies_spawned <= target

\* spawn_enemies was called during the countdown after wave 2, with the dead
\* enemies of both waves in the list.
C25_Witness ==
    /\ hist.op = "spawn"
    /\ hist.wm.between_waves
    /\ hist.wm.current_wave = 2
    /\ hist.wm.enemies_spawned = 5
    /\ Len(enemies) = 8

-----------------------------------------------------------------------------
(* C26: once between_waves is set, with every tick's dt positive (1.0 s or *)
(* 2.5 s here), a wave is eventually in progress again; and every step     *)
(* taken while between_waves is set, whether an update, a spawn_enemies    *)
(* call or a hit, either keeps the wave number and does not raise          *)
(* wave_countdown, or starts the wave with the next number.  (Checked      *)
(* under SpecWaveFair, for the waves before the last one explored.)        *)
C26_CountdownEnds ==
    /\ (wave_manager.between_waves /\ wave_manager.current_wave < MaxWave)
           ~> wave_manager.wave_in_progress
    /\ [][wave_manager.between_waves
              => \/ /\ wave_manager'.between_waves
                    /\ ~wave_manager'.wave_in_progress
                    /\ wave_manager'.current_wave = wave_manager.current_wave
                    /\ wave_manager'.wave_countdown <= wave_manager.wave_countdown
                 \/ /\ wave_manager'.wave_in_progress
                    /\ ~wave_manager'.between_waves
                    /\ wave_manager'.current_wave
                           = wave_manager.current_wave + 1]_vars

\* An update with dt = 2.5 s has brought the countdown from 2.5 s to exactly
\* 0 and started the next wave.
C26_Witness ==
    /\ hist.op = "update"
    /\ hist.dt = 2500
    /\ hist.wm.between_waves
    /\ hist.wm.wave_countdown = 2500
    /\ wave_manager.wave_in_progress
    /\ wave_manager.current_wave = hist.wm.current_wave + 1

-----------------------------------------------------------------------------
(* C27: an enemy created in a cell that is not a wall is never in a wall   *)
(* cell: after every Enemy.update, whatever dt and wherever the player is, *)
(* is_wall(int(x), int(y)) is false for its position.                      *)
C27_EnemyNeverInWall ==
    \A i \in 1..Len(enemies) : ~is_wall(int(enemies[i].x), int(enemies[i].y))

\* An alive enemy has stepped diagonally towards the corner of a wall cell:
\* the X delta was applied and the Y delta refused, because the destination
\* cell is a wall.
C27_Witness ==
    /\ hist.op = "enemy_update"
    /\ hist.e.alive
    /\ LET t == Enemy_target(hist.e, player_x, player_y, hist.dt)
       IN  /\ is_wall(int(t[1]), int(t[2]))
           /\ ~is_wall(int(t[1]), int(hist.e.y))
           /\ ~is_wall(int(hist.e.x), int(t[2]))
           /\ enemies[1].x = t[1]
           /\ enemies[1].y = hist.e.y
           /\ t[2] # hist.e.y

-----------------------------------------------------------------------------
(* C28: the player is never in a wall cell: from the start position        *)
(* (3.5, 10.5), after any sequence of handle_input calls,                  *)
(* is_wall(int(player_x), int(player_y)) is false.                         *)
(* try_move tests the two axes independently of each other, so a diagonal  *)
(* move towards a wall corner ends inside the wall cell: it is violated.   *)
C28_PlayerNeverInWall ==
    ~is_wall(int(player_x), int(player_y))

-----------------------------------------------------------------------------
(* C29: in every state of the game loop each enemy is alive exactly when   *)
(* its health is positive, and it was spawned with a health of at least 1; *)
(* and no step changes an enemy that is not alive: it is not damaged a     *)
(* second time, not revived and not moved, and it stays in the list.       *)
C29_AliveIffHealthPositive ==
    /\ [](\A i \in 1..Len(enemies) :
              /\ enemies[i].alive <=> enemies[i].health > 0
              /\ enemies[i].health >= 0)
    /\ [][/\ Len(enemies') >= Len(enemies)
          /\ \A i \in 1..Len(enemies) :
                 /\ ~enemies[i].alive => enemies'[i] = enemies[i]
                 /\ enemies'[i].health <= enemies[i].health
          /\ \A i \in (Len(enemies) + 1)..Len(enemies') :
                 enemies'[i].alive /\ enemies'[i].health >= 1]_vars

\* The bullet loop has run with two bullets at the same place: two enemies
\* standing there are dead, each with health 0, each killed by one bullet.
C29_Witness ==
    /\ hist.op = "bullets"
    /\ Len(hist.log) >= 4
    /\ \E i, j \in 1..Len(enemies) :
           /\ i < j
           /\ enemies[i].x = enemies[j].x /\ enemies[i].y = enemies[j].y
           /\ ~enemies[i].alive /\ ~enemies[j].alive
           /\ enemies[i].health = 0 /\ enemies[j].health = 0

-----------------------------------------------------------------------------
(* C30: ammo_boxes holds at most 3 boxes, all alive, at the end of every   *)
(* tick (and between the phases of a tick); the ammo box phase adds at     *)
(* most one box to those that were not picked up, adds one only when the   *)
(* timer, with this tick's dt added, is at least 20 s and fewer than 3     *)
(* boxes are left, and then sets the timer to 0; otherwise the timer has   *)
(* grown by dt.                                                            *)
C30_AtMostThreeBoxes ==
    /\ [](/\ Len(ammo_boxes) <= 3
          /\ \A i \in 1..Len(ammo_boxes) : ammo_boxes[i].alive)
    /\ [][pc = "boxes" =>
            LET picked == { i \in 1..Len(ammo_boxes) :
                              Within(player_x - ammo_boxes[i].x,
                                     player_y - ammo_boxes[i].y,
                                     ammo_boxes[i].pickup_distance) }
                left == Len(ammo_boxes) - Cardinality(picked)
                added == Len(ammo_boxes') - left
            IN  /\ added \in {0, 1}
                /\ added = 1 <=> (ammo_box_spawn_timer + dt >= 20000 /\ left < 3)
                /\ added = 1 => ammo_box_spawn_timer' = 0
                /\ added = 0 => ammo_box_spawn_timer' = ammo_box_spawn_timer + dt]_vars

\* Three boxes lie on the map and the timer has passed 20 s: the ammo box
\* phase has added none.
C30_Witness ==
    /\ hist.op = "boxes"
    /\ Len(hist.boxes) = 3
    /\ Len(ammo_boxes) = 3
    /\ ammo_box_spawn_timer >= 20000

=============================================================================
